---- MODULE Spec2Model ----
(***************************************************************************)
(* Runtime reconfiguration client of simple_switch_grpc:                   *)
(*   - the pipeline graph builder and the install / uninstall planners     *)
(*     (p4runtime_lib/runtime_reconfig_tools.py),                          *)
(*   - the primitive command parser and the transport-side READY check     *)
(*     (p4runtime_lib/switch.py),                                          *)
(*   - the per-switch session controller (sswitch_grpc_cli.py).            *)
(* Names, commands and file paths are strings, handled character by        *)
(* character as the Python code handles them.                              *)
(***************************************************************************)
EXTENDS Integers, Sequences, FiniteSets, TLC

(***************************************************************************)
(* Generic helpers                                                         *)
(***************************************************************************)
Min(a, b) == IF a < b THEN a ELSE b

Range(s) == {s[i] : i \in 1..Len(s)}

\* Python s[i:j] for 0 <= i <= j (0-based, half open, clipped to the string)
PySlice(s, i, j) == SubSeq(s, i + 1, Min(j, Len(s)))

\* Python s[i:]
PyFrom(s, i) == SubSeq(s, i + 1, Len(s))

RECURSIVE NatToStr(_)
NatToStr(n) ==
  IF n < 10 THEN SubSeq("0123456789", n + 1, n + 1)
  ELSE NatToStr(n \div 10) \o SubSeq("0123456789", (n % 10) + 1, (n % 10) + 1)

\* "{}".format(n) for an int n
IntToStr(n) == IF n < 0 THEN "-" \o NatToStr(0 - n) ELSE NatToStr(n)

\* the last position of the token that starts at position i of s
TokenEnd(s, i) ==
  CHOOSE j \in i..Len(s) :
    /\ j = Len(s) \/ SubSeq(s, j + 1, j + 1) = " "
    /\ \A m \in i..j : SubSeq(s, m, m) # " "

RECURSIVE SplitFrom(_, _)
SplitFrom(s, i) ==
  IF i > Len(s) THEN <<>>
  ELSE IF SubSeq(s, i, i) = " " THEN SplitFrom(s, i + 1)
  ELSE <<SubSeq(s, i, TokenEnd(s, i))>> \o SplitFrom(s, TokenEnd(s, i) + 1)

\* str.split(): the whitespace separated tokens of a command line
Split(s) == SplitFrom(s, 1)

\* index of the first x in seq, 0 when absent
RECURSIVE IndexFrom(_, _, _)
IndexFrom(seq, x, i) ==
  IF i > Len(seq) THEN 0
  ELSE IF seq[i] = x THEN i ELSE IndexFrom(seq, x, i + 1)

IndexOf(seq, x) == IndexFrom(seq, x, 1)

\* seq without repetitions, first occurrences kept in order
RECURSIVE Dedup(_)
Dedup(seq) ==
  IF seq = <<>> THEN <<>>
  ELSE LET init == Dedup(SubSeq(seq, 1, Len(seq) - 1))
           last == seq[Len(seq)]
       IN  IF last \in Range(init) THEN init ELSE Append(init, last)

RECURSIVE Flatten(_)
Flatten(ss) == IF ss = <<>> THEN <<>> ELSE Head(ss) \o Flatten(Tail(ss))

\* the sequences that enumerate the finite set S once each, i.e. the orders in
\* which Python may iterate over a set of strings
Perms(S) ==
  {p \in [1..Cardinality(S) -> S] : \A i, j \in 1..Cardinality(S) : p[i] = p[j] => i = j}

(***************************************************************************)
(* Pipeline description (the ingress pipeline of a bmv2 JSON file).        *)
(*   [init_table, tables, conditionals, action_calls]                      *)
(*   table       = [name, flex_name, base_default_next, next_tables]       *)
(*   next_tables = sequence of [label, next] in the dict's key order       *)
(*   conditional = [name, flex_name, true_next, false_next]                *)
(* None is JSON null; NoFlex marks an object without a "flex_name" key.    *)
(***************************************************************************)
None == "<None>"

NoFlex == "<no flex_name>"

Tbl(n, f, bdn, nts) ==
  [name |-> n, flex_name |-> f, base_default_next |-> bdn, next_tables |-> nts]

Cnd(n, f, tn, fn) ==
  [name |-> n, flex_name |-> f, true_next |-> tn, false_next |-> fn]

NT(l, n) == [label |-> l, next |-> n]

Pipe(it, ts, cs) ==
  [init_table |-> it, tables |-> ts, conditionals |-> cs, action_calls |-> FALSE]

(***************************************************************************)
(* Pipeline graph: a networkx MultiDiGraph.                                *)
(*   nodes: the vertices in insertion order                                *)
(*   edges: [u, v, type] in insertion order; the key of an edge is the     *)
(*          number of earlier edges with the same (u, v)                   *)
(***************************************************************************)
Edge(u, v, t) == [u |-> u, v |-> v, type |-> t]

\* adj[u]: the distinct successors of u in the order they were first added
Nbrs(g, u) ==
  Dedup([i \in 1..Len(SelectSeq(g.edges, LAMBDA e : e.u = u)) |->
           SelectSeq(g.edges, LAMBDA e : e.u = u)[i].v])

\* g[u][v]: the edge types of the parallel edges u -> v, by key 0, 1, ...
EdgeTypes(g, u, v) ==
  LET es == SelectSeq(g.edges, LAMBDA e : e.u = u /\ e.v = v)
  IN  [i \in 1..Len(es) |-> es[i].type]

\* g[u][v] raises KeyError unless u is a vertex with a successor v
HasAdj(g, u, v) == u \in Range(g.nodes) /\ v \in Range(Nbrs(g, u))

\* g.edges(): (u, v) pairs, by vertex in insertion order, then successor in
\* first-insertion order, then key
EdgePairs(g) ==
  Flatten([i \in 1..Len(g.nodes) |->
    LET u  == g.nodes[i]
        ns == Nbrs(g, u)
    IN  Flatten([j \in 1..Len(ns) |->
          [k \in 1..Len(EdgeTypes(g, u, ns[j])) |-> <<u, ns[j]>>]])])

\* g.in_edges(n, data=True): by predecessor in first-insertion order, then key
InEdges(g, n) ==
  LET into  == SelectSeq(g.edges, LAMBDA e : e.v = n)
      preds == Dedup([i \in 1..Len(into) |-> into[i].u])
  IN  Flatten([j \in 1..Len(preds) |->
        SelectSeq(into, LAMBDA e : e.u = preds[j])])

(***************************************************************************)
(* generate_graph: the graph of a pipeline description.                    *)
(* Results of operations that can raise are records; err = NoErr when the  *)
(* Python code returns normally, else the class of the exception raised.   *)
(***************************************************************************)
NoErr == "ok"

ReconfigError == "P4RuntimeReconfigError"

ReconfigWarning == "P4RuntimeReconfigWarning"

EmptyGraph == [nodes |-> <<>>, edges |-> <<>>]

\* name2id after both node loops: {None: "old_s"}, then every table, then
\* every conditional; a later object of the same name replaces the entry
InName2Id(p, n) ==
  \/ n = None
  \/ \E i \in 1..Len(p.tables) : p.tables[i].name = n
  \/ \E i \in 1..Len(p.conditionals) : p.conditionals[i].name = n

Name2Id(p, n) ==
  LET cs == SelectSeq(p.conditionals, LAMBDA c : c.name = n)
      ts == SelectSeq(p.tables, LAMBDA t : t.name = n)
  IN  IF cs # <<>> THEN cs[Len(cs)].flex_name
      ELSE IF ts # <<>> THEN ts[Len(ts)].flex_name
      ELSE "old_s"

\* the edges one table contributes: next_tables are visited only inside the
\* branch where base_default_next resolved
TableEdges(p, t) ==
  IF InName2Id(p, t.base_default_next)
    THEN <<Edge(Name2Id(p, t.name), Name2Id(p, t.base_default_next), "base_default_next")>>
         \o Flatten([i \in 1..Len(t.next_tables) |->
              IF InName2Id(p, t.next_tables[i].next)
                THEN <<Edge(Name2Id(p, t.name), Name2Id(p, t.next_tables[i].next),
                            t.next_tables[i].label)>>
                ELSE <<>>])
    ELSE <<>>

\* the edges one conditional contributes: both or none
CondEdges(p, c) ==
  IF InName2Id(p, c.true_next) /\ InName2Id(p, c.false_next)
    THEN <<Edge(Name2Id(p, c.name), Name2Id(p, c.true_next), "true_next"),
           Edge(Name2Id(p, c.name), Name2Id(p, c.false_next), "false_next")>>
    ELSE <<>>

generate_graph_err(p) ==
  IF \E i \in 1..Len(p.tables) : p.tables[i].flex_name = NoFlex THEN ReconfigError
  ELSE IF \E i \in 1..Len(p.conditionals) : p.conditionals[i].flex_name = NoFlex
    THEN ReconfigError
  ELSE IF p.action_calls THEN ReconfigError
  ELSE IF ~InName2Id(p, p.init_table) THEN "KeyError"
  ELSE NoErr

generate_graph_ok(p) ==
  [nodes |-> Dedup(<<"old_r", "old_s">>
                   \o [i \in 1..Len(p.tables) |-> p.tables[i].flex_name]
                   \o [i \in 1..Len(p.conditionals) |-> p.conditionals[i].flex_name]),
   edges |-> <<Edge("old_r", Name2Id(p, p.init_table), "base_default_next")>>
             \o Flatten([i \in 1..Len(p.tables) |-> TableEdges(p, p.tables[i])])
             \o Flatten([i \in 1..Len(p.conditionals) |-> CondEdges(p, p.conditionals[i])])]

generate_graph(p) ==
  IF generate_graph_err(p) = NoErr
    THEN [err |-> NoErr, g |-> generate_graph_ok(p)]
    ELSE [err |-> generate_graph_err(p), g |-> EmptyGraph]

(***************************************************************************)
(* Name handling of the planners                                           *)
(***************************************************************************)
\* eliminate_type_letter_in_name: name[:4] + name[5:]
eliminate_type_letter_in_name(name) == PySlice(name, 0, 4) \o PyFrom(name, 5)

\* type_letter_to_type(name[4]) raises IndexError on a name shorter than 5
\* characters and P4RuntimeReconfigError on a letter other than t and c
KindErr(name) ==
  IF Len(name) < 5 THEN "IndexError"
  ELSE IF SubSeq(name, 5, 5) \notin {"t", "c"} THEN ReconfigError
  ELSE NoErr

\* type_letter_to_type(name[4]) where it does not raise
KindOf(name) == IF SubSeq(name, 5, 5) = "t" THEN "tabl" ELSE "cond"

\* "flx_flex_func_mount_point_number_${}$".format(k)
MountBranch(k) == "flx_flex_func_mount_point_number_$" \o IntToStr(k) \o "$"

\* eliminate_type_letter_in_name(x) if x != "old_s" else "null"
NextToken(x) == IF x # "old_s" THEN eliminate_type_letter_in_name(x) ELSE "null"

\* the first error among the results errs (a sequence), NoErr if none
RECURSIVE FirstErr(_)
FirstErr(errs) ==
  IF errs = <<>> THEN NoErr
  ELSE IF Head(errs) # NoErr THEN Head(errs) ELSE FirstErr(Tail(errs))

\* a planner that hands back the primitives it had emitted when it failed
PartialPlan(e) == [err |-> NoErr, cmds |-> <<"init_p4objects_new m">>]

\* a planner that raised e: nothing is returned
NoPlan(e) == [err |-> e, cmds |-> <<>>]

(***************************************************************************)
(* generate_install_func_commands                                          *)
(***************************************************************************)
\* uv_dict[(u, v)] when the i-th pair of the edge walk is handled: the
\* number of earlier pairs equal to it
UvCount(pairs, i) == Cardinality({j \in 1..(i - 1) : pairs[j] = pairs[i]})

\* the vertex the last old_r edge leads to (None when there is none)
ControlBlockFirstNode(mg) ==
  LET rs == SelectSeq(EdgePairs(mg), LAMBDA pr : pr[1] = "old_r")
  IN  IF rs = <<>> THEN None ELSE rs[Len(rs)][2]

\* "insert <kind> ingress <name>" for every merged vertex but old_r, old_s
InsertCommands(mg) ==
  LET vs == SelectSeq(mg.nodes, LAMBDA n : n # "old_r" /\ n # "old_s")
  IN  [i \in 1..Len(vs) |->
         "insert " \o KindOf(vs[i]) \o " ingress " \o eliminate_type_letter_in_name(vs[i])]

\* the edge walk: a change for every edge that does not start at old_r and
\* does not end at old_s
InternalChangeCommands(mg) ==
  LET pairs == EdgePairs(mg)
  IN  Flatten([i \in 1..Len(pairs) |->
        LET u == pairs[i][1]
            v == pairs[i][2]
        IN  IF u = "old_r" \/ v = "old_s" THEN <<>>
            ELSE <<"change " \o KindOf(u) \o " ingress " \o eliminate_type_letter_in_name(u)
                   \o " " \o EdgeTypes(mg, u, v)[UvCount(pairs, i) + 1]
                   \o " " \o eliminate_type_letter_in_name(v)>>])

\* control_block_end_nodes: (u, type) of every edge into old_s, in walk order
ControlBlockEndNodes(mg) ==
  LET pairs == EdgePairs(mg)
  IN  Flatten([i \in 1..Len(pairs) |->
        LET u == pairs[i][1]
            v == pairs[i][2]
        IN  IF u # "old_r" /\ v = "old_s"
              THEN <<<<u, EdgeTypes(mg, u, "old_s")[UvCount(pairs, i) + 1]>>>>
              ELSE <<>>])

\* the exits of the control block are pointed at end_point
ExitChangeCommands(mg, end_point) ==
  LET ens == ControlBlockEndNodes(mg)
  IN  [i \in 1..Len(ens) |->
         "change " \o KindOf(ens[i][1]) \o " ingress "
         \o eliminate_type_letter_in_name(ens[i][1])
         \o " " \o ens[i][2] \o " " \o NextToken(end_point)]

\* a planner that reads only key 0 of runtime_graph[start_point][end_point]
ConnectionTypesFirstOnly(rg, start_point, end_point) ==
  SubSeq(EdgeTypes(rg, start_point, end_point), 1, 1)

\* start_point_to_end_point_connection_types
ConnectionTypes(rg, start_point, end_point) == EdgeTypes(rg, start_point, end_point)

\* the redirect of start_point to the mount branch
RedirectCommands(rg, start_point, end_point, flex) ==
  IF start_point # "old_r"
    THEN [i \in 1..Len(ConnectionTypes(rg, start_point, end_point)) |->
            "change " \o KindOf(start_point) \o " ingress "
            \o eliminate_type_letter_in_name(start_point)
            \o " " \o ConnectionTypes(rg, start_point, end_point)[i] \o " " \o flex]
    ELSE <<"change init ingress " \o flex>>

\* the exception generate_install_func_commands ends with, in the order the
\* code reaches the raising statements
install_err(rt, m, start_point, end_point, k) ==
  LET rg == generate_graph(rt)
      mg == generate_graph(m)
  IN  IF rg.err # NoErr THEN rg.err
      ELSE IF mg.err # NoErr THEN mg.err
      ELSE IF ~HasAdj(rg.g, start_point, end_point) THEN "KeyError"
      ELSE IF k < 0 THEN ReconfigError
      ELSE LET vs   == SelectSeq(mg.g.nodes, LAMBDA n : n # "old_r" /\ n # "old_s")
               us   == SelectSeq(EdgePairs(mg.g), LAMBDA pr : pr[1] # "old_r")
               errs == [i \in 1..Len(vs) |-> KindErr(vs[i])]
                       \o [i \in 1..Len(us) |-> KindErr(us[i][1])]
                       \o (IF start_point # "old_r" THEN <<KindErr(start_point)>> ELSE <<>>)
           IN  FirstErr(errs)

\* a plan that re-points the start point before the body is wired
RedirectFirst(rt, mpath, m, start_point, end_point, k) ==
  LET rg   == generate_graph(rt).g
      mg   == generate_graph(m).g
      flex == MountBranch(k)
  IN  <<"init_p4objects_new " \o mpath>>
      \o <<"insert flex ingress " \o flex \o " null null">>
      \o InsertCommands(mg)
      \o RedirectCommands(rg, start_point, end_point, flex)
      \o InternalChangeCommands(mg)
      \o ExitChangeCommands(mg, end_point)
      \o <<"change flex ingress " \o flex \o " false_next " \o NextToken(end_point)>>
      \o <<"change flex ingress " \o flex \o " true_next "
           \o eliminate_type_letter_in_name(ControlBlockFirstNode(mg))>>
      \o <<"trigger on " \o IntToStr(k)>>

\* install_func_commands as the function appends to it
install_cmds(rt, mpath, m, start_point, end_point, k) ==
  LET rg   == generate_graph(rt).g
      mg   == generate_graph(m).g
      flex == MountBranch(k)
  IN  <<"init_p4objects_new " \o mpath>>
      \o <<"insert flex ingress " \o flex \o " null null">>
      \o InsertCommands(mg)
      \o InternalChangeCommands(mg)
      \o ExitChangeCommands(mg, end_point)
      \o <<"change flex ingress " \o flex \o " false_next " \o NextToken(end_point)>>
      \o <<"change flex ingress " \o flex \o " true_next "
           \o eliminate_type_letter_in_name(ControlBlockFirstNode(mg))>>
      \o RedirectCommands(rg, start_point, end_point, flex)
      \o <<"trigger on " \o IntToStr(k)>>

generate_install_func_commands(rt, mpath, m, start_point, end_point, k) ==
  IF install_err(rt, m, start_point, end_point, k) = NoErr
    THEN [err |-> NoErr, cmds |-> install_cmds(rt, mpath, m, start_point, end_point, k)]
    ELSE NoPlan(install_err(rt, m, start_point, end_point, k))

(***************************************************************************)
(* generate_uninstall_func_commands                                        *)
(***************************************************************************)
Succs(g, u) == Range(Nbrs(g, u))

\* the vertices of the simple paths that extend the path `visited`, now at
\* cur, to target (nx.all_simple_paths; a path ends when it reaches target)
RECURSIVE SimplePathsFrom(_, _, _, _)
SimplePathsFrom(g, cur, target, visited) ==
  IF cur = target THEN visited \cup {cur}
  ELSE UNION {SimplePathsFrom(g, n, target, visited \cup {cur}) :
                n \in Succs(g, cur) \ (visited \cup {cur})}

\* the union of the vertices of all simple paths from source to target
SimplePathNodes(g, source, target) ==
  IF source = target THEN {} ELSE SimplePathsFrom(g, source, target, {})

\* the neighbour of the mount branch whose key-0 edge has the type ty; the
\* last such neighbour in adjacency order, None when there is none
BranchNext(g, flex, ty) ==
  LET ns == SelectSeq(Nbrs(g, flex), LAMBDA n : EdgeTypes(g, flex, n)[1] = ty)
  IN  IF ns = <<>> THEN None ELSE ns[Len(ns)]

\* nodes_to_be_deleted after the update loop and before remove()
PathNodes(g, flex) ==
  SimplePathNodes(g, BranchNext(g, flex, "true_next"), BranchNext(g, flex, "false_next"))

\* a delete set that keeps the target of the simple paths
PathNodesWithTarget(g, flex) == PathNodes(g, flex)

\* nodes_to_be_deleted after remove(false_next_node)
NodesToBeDeleted(g, flex) == PathNodes(g, flex) \ {BranchNext(g, flex, "false_next")}

\* one parent of the mount branch, the i-th incoming edge: a parent other
\* than old_r is re-pointed; for old_r the code reads parent_node_of_flex,
\* which is unbound unless an earlier incoming edge had another parent, and
\* otherwise holds that parent's name (longer than one character)
ParentErr(parents, i) ==
  IF parents[i].u # "old_r" THEN KindErr(parents[i].u)
  ELSE IF \A j \in 1..(i - 1) : parents[j].u = "old_r" THEN "UnboundLocalError"
  ELSE LET prev == SelectSeq(SubSeq(parents, 1, i - 1), LAMBDA e : e.u # "old_r")
       IN  IF Len(prev[Len(prev)].u) > 1 THEN ReconfigError ELSE NoErr

ParentCommand(parents, i, false_token) ==
  IF parents[i].u # "old_r"
    THEN "change " \o KindOf(parents[i].u) \o " ingress "
         \o eliminate_type_letter_in_name(parents[i].u)
         \o " " \o parents[i].type \o " " \o false_token
    ELSE "change init ingress " \o false_token

uninstall_err(rt, k, ord) ==
  LET rg   == generate_graph(rt)
      flex == MountBranch(k)
  IN  IF rg.err # NoErr THEN rg.err
      ELSE IF flex \notin Range(rg.g.nodes) THEN "KeyError"
      ELSE IF Len(Nbrs(rg.g, flex)) # 2 THEN ReconfigError
      ELSE IF BranchNext(rg.g, flex, "true_next") = None THEN "TypeError"
      ELSE IF BranchNext(rg.g, flex, "false_next") = None THEN "TypeError"
      ELSE IF BranchNext(rg.g, flex, "false_next") \notin PathNodes(rg.g, flex)
        THEN "KeyError"
      ELSE LET ps == InEdges(rg.g, flex)
           IN  FirstErr([i \in 1..Len(ord) |-> KindErr(ord[i])]
                        \o [i \in 1..Len(ps) |-> ParentErr(ps, i)])

\* uninstall_func_commands as the function appends to it
uninstall_cmds(rt, k, ord) ==
  LET g     == generate_graph(rt).g
      flex  == MountBranch(k)
      ps    == InEdges(g, flex)
      false == NextToken(BranchNext(g, flex, "false_next"))
  IN  <<"trigger off " \o IntToStr(k)>>
      \o [i \in 1..Len(ord) |->
            "delete " \o KindOf(ord[i]) \o " ingress " \o eliminate_type_letter_in_name(ord[i])]
      \o [i \in 1..Len(ps) |-> ParentCommand(ps, i, false)]
      \o <<"delete flex ingress " \o flex>>

\* the orders in which the delete loop may visit nodes_to_be_deleted (a
\* Python set of strings); the empty order stands in when planning fails
\* before the set exists
DeleteOrders(rt, k) ==
  LET rg == generate_graph(rt)
  IN  IF rg.err = NoErr /\ MountBranch(k) \in Range(rg.g.nodes)
        THEN Perms(NodesToBeDeleted(rg.g, MountBranch(k)))
        ELSE {<<>>}

\* ord: the iteration order of the set nodes_to_be_deleted
generate_uninstall_func_commands(rt, k, ord) ==
  IF uninstall_err(rt, k, ord) = NoErr
    THEN [err |-> NoErr, cmds |-> uninstall_cmds(rt, k, ord)]
    ELSE NoPlan(uninstall_err(rt, k, ord))

(***************************************************************************)
(* RuntimeReconfigCommandParser                                            *)
(***************************************************************************)
valid_actions == {"insert", "change", "delete", "trigger", "init_p4objects_new"}

valid_action_targets_for_insert == {"tabl", "cond", "flex", "register_array"}

valid_action_targets_for_change ==
  {"tabl", "cond", "flex", "register_array_size", "register_array_bitwidth", "init"}

valid_action_targets_for_delete == {"tabl", "cond", "flex", "register_array"}

\* the len(cmd_entries) the arity checks demand; 0 where the code has no
\* check for the (action, target) pair
RequiredEntries(action, target) ==
  IF action = "insert" THEN
    (IF target \in {"tabl", "cond"} THEN 4
     ELSE IF target = "flex" THEN 6
     ELSE IF target = "register_array" THEN 5 ELSE 0)
  ELSE IF action = "change" THEN
    (IF target \in {"tabl", "cond", "flex"} THEN 6
     ELSE IF target \in {"register_array_size", "register_array_bitwidth"} THEN 4 ELSE 0)
  ELSE IF action = "delete" THEN
    (IF target \in {"tabl", "cond", "flex"} THEN 4
     ELSE IF target = "register_array" THEN 3 ELSE 0)
  ELSE 0

\* the exception _parse_runtime_reconfig_command ends with
parse_err(cmd) ==
  LET cmd_entries == Split(cmd)
  IN  IF Len(cmd_entries) < 1 THEN "IndexError"
      ELSE IF cmd_entries[1] \notin valid_actions THEN ReconfigError
      \* action_target = cmd_entries[1]: the condition `!= "trigger" or
      \* != "init_p4objects_new"` is true of every action
      ELSE IF Len(cmd_entries) < 2 THEN "IndexError"
      ELSE IF cmd_entries[1] = "insert" /\ cmd_entries[2] \notin valid_action_targets_for_insert
        THEN ReconfigError
      ELSE IF cmd_entries[1] = "change" /\ cmd_entries[2] \notin valid_action_targets_for_change
        THEN ReconfigError
      ELSE IF cmd_entries[1] = "delete" /\ cmd_entries[2] \notin valid_action_targets_for_delete
        THEN ReconfigError
      ELSE IF cmd_entries[1] \in {"trigger", "init_p4objects_new"}
        THEN (IF Len(cmd_entries) # 2 THEN ReconfigError ELSE NoErr)
      ELSE IF RequiredEntries(cmd_entries[1], cmd_entries[2]) # 0
              /\ Len(cmd_entries) # RequiredEntries(cmd_entries[1], cmd_entries[2])
        THEN ReconfigError
      ELSE NoErr

\* the parsed command: action, action_target and action_arguments (the one
\* token cmd_entries[1] for trigger and init_p4objects_new, else the list
\* cmd_entries[2:])
RuntimeReconfigCommandParser(cmd) ==
  LET cmd_entries == Split(cmd)
  IN  IF parse_err(cmd) # NoErr
        THEN [err |-> parse_err(cmd), action |-> "", action_target |-> "",
              action_arguments |-> <<>>]
        ELSE [err |-> NoErr,
              action |-> cmd_entries[1],
              action_target |-> cmd_entries[2],
              action_arguments |->
                IF cmd_entries[1] \in {"trigger", "init_p4objects_new"}
                  THEN cmd_entries[2]
                  ELSE SubSeq(cmd_entries, 3, Len(cmd_entries))]

(***************************************************************************)
(* The switch (simple_switch_grpc).  Its implementation is not part of     *)
(* the client sources; its effect on the pipeline is modelled from the     *)
(* primitive formats and the staging area described for it: a primitive    *)
(* names a node by its flex-name without the kind letter (flx_ names       *)
(* unchanged), `null` is the sink, inserted tables and conditionals come   *)
(* from the staging area and start with every successor null.              *)
(*   switch = [pipe, staging, on]; staging = NoStaging until loaded        *)
(***************************************************************************)
NoStaging == [init_table |-> None, tables |-> <<>>, conditionals |-> <<>>,
              action_calls |-> FALSE, loaded |-> FALSE]

Staged(m) == [init_table |-> m.init_table, tables |-> m.tables,
              conditionals |-> m.conditionals, action_calls |-> m.action_calls,
              loaded |-> TRUE]

NewSwitch(p) == [pipe |-> p, staging |-> NoStaging, on |-> {}]

IsFlx(f) == PySlice(f, 0, 4) = "flx_"

\* the name a primitive uses for the node with flex-name f
WireName(f) == IF IsFlx(f) THEN f ELSE eliminate_type_letter_in_name(f)

TableIdx(p, wire) ==
  LET I == {i \in 1..Len(p.tables) :
              ~IsFlx(p.tables[i].flex_name) /\ WireName(p.tables[i].flex_name) = wire}
  IN  IF I = {} THEN 0 ELSE CHOOSE i \in I : \A j \in I : i <= j

CondIdx(p, wire, flx) ==
  LET I == {i \in 1..Len(p.conditionals) :
              IsFlx(p.conditionals[i].flex_name) = flx
              /\ WireName(p.conditionals[i].flex_name) = wire}
  IN  IF I = {} THEN 0 ELSE CHOOSE i \in I : \A j \in I : i <= j

\* the JSON name of the node a <next-or-null> token denotes; Unknown when
\* the switch has no such node
Unknown == "<unknown>"

ResolveNext(p, tok) ==
  IF tok = "null" THEN None
  ELSE IF TableIdx(p, tok) # 0 THEN p.tables[TableIdx(p, tok)].name
  ELSE IF CondIdx(p, tok, FALSE) # 0 THEN p.conditionals[CondIdx(p, tok, FALSE)].name
  ELSE IF CondIdx(p, tok, TRUE) # 0 THEN p.conditionals[CondIdx(p, tok, TRUE)].name
  ELSE Unknown

NameInUse(p, n) ==
  \/ \E i \in 1..Len(p.tables) : p.tables[i].name = n
  \/ \E i \in 1..Len(p.conditionals) : p.conditionals[i].name = n

RemoveAt(seq, i) == SubSeq(seq, 1, i - 1) \o SubSeq(seq, i + 1, Len(seq))

SwitchReject == "switch rejects"

Rejected(sw) == [err |-> SwitchReject, sw |-> sw]

Accepted(sw) == [err |-> NoErr, sw |-> sw]

SwInsert(sw, target, a) ==
  LET p == sw.pipe
      st == sw.staging
  IN  IF ~st.loaded THEN Rejected(sw)
      ELSE IF target = "tabl" /\ Len(a) = 2 /\ TableIdx(st, a[2]) # 0
              /\ ~NameInUse(p, st.tables[TableIdx(st, a[2])].name) THEN
        LET t == st.tables[TableIdx(st, a[2])]
        IN  Accepted([sw EXCEPT !.pipe.tables = Append(p.tables,
              [t EXCEPT !.base_default_next = None,
                        !.next_tables = [i \in 1..Len(t.next_tables) |->
                                           NT(t.next_tables[i].label, None)]])])
      ELSE IF target = "cond" /\ Len(a) = 2 /\ CondIdx(st, a[2], FALSE) # 0
              /\ ~NameInUse(p, st.conditionals[CondIdx(st, a[2], FALSE)].name) THEN
        LET c == st.conditionals[CondIdx(st, a[2], FALSE)]
        IN  Accepted([sw EXCEPT !.pipe.conditionals = Append(p.conditionals,
              [c EXCEPT !.true_next = None, !.false_next = None])])
      ELSE IF target = "flex" /\ Len(a) = 4 /\ IsFlx(a[2]) /\ ~NameInUse(p, a[2])
              /\ ResolveNext(p, a[3]) # Unknown /\ ResolveNext(p, a[4]) # Unknown THEN
        Accepted([sw EXCEPT !.pipe.conditionals = Append(p.conditionals,
              Cnd(a[2], a[2], ResolveNext(p, a[3]), ResolveNext(p, a[4])))])
      ELSE Rejected(sw)

SwChange(sw, target, a) ==
  LET p == sw.pipe
  IN  IF target = "init" /\ Len(a) = 2 /\ ResolveNext(p, a[2]) \notin {Unknown, None}
        THEN Accepted([sw EXCEPT !.pipe.init_table = ResolveNext(p, a[2])])
      ELSE IF target = "tabl" /\ Len(a) = 4 /\ TableIdx(p, a[2]) # 0
              /\ ResolveNext(p, a[4]) # Unknown THEN
        LET i == TableIdx(p, a[2])
            t == p.tables[i]
            J == {j \in 1..Len(t.next_tables) : t.next_tables[j].label = a[3]}
        IN  IF a[3] = "base_default_next"
              THEN Accepted([sw EXCEPT !.pipe.tables[i].base_default_next =
                                          ResolveNext(p, a[4])])
            ELSE IF J # {}
              THEN Accepted([sw EXCEPT !.pipe.tables[i].next_tables =
                     [j \in 1..Len(t.next_tables) |->
                        IF j \in J THEN NT(a[3], ResolveNext(p, a[4]))
                        ELSE t.next_tables[j]]])
            ELSE Rejected(sw)
      ELSE IF target \in {"cond", "flex"} /\ Len(a) = 4
              /\ CondIdx(p, a[2], target = "flex") # 0
              /\ a[3] \in {"true_next", "false_next"}
              /\ ResolveNext(p, a[4]) # Unknown THEN
        LET i == CondIdx(p, a[2], target = "flex")
        IN  IF a[3] = "true_next"
              THEN Accepted([sw EXCEPT !.pipe.conditionals[i].true_next =
                                          ResolveNext(p, a[4])])
              ELSE Accepted([sw EXCEPT !.pipe.conditionals[i].false_next =
                                          ResolveNext(p, a[4])])
      ELSE Rejected(sw)

SwDelete(sw, target, a) ==
  LET p == sw.pipe
  IN  IF target = "tabl" /\ Len(a) = 2 /\ TableIdx(p, a[2]) # 0
        THEN Accepted([sw EXCEPT !.pipe.tables = RemoveAt(p.tables, TableIdx(p, a[2]))])
      ELSE IF target \in {"cond", "flex"} /\ Len(a) = 2
              /\ CondIdx(p, a[2], target = "flex") # 0
        THEN Accepted([sw EXCEPT !.pipe.conditionals =
                         RemoveAt(p.conditionals, CondIdx(p, a[2], target = "flex"))])
      ELSE Rejected(sw)

\* the switch applies one primitive, given as its tokens; staged is the
\* content of the file an init_p4objects_new names
SwitchApply(sw, toks, staged) ==
  IF Len(toks) < 2 THEN Rejected(sw)
  ELSE IF toks[1] = "init_p4objects_new" THEN Accepted([sw EXCEPT !.staging = Staged(staged)])
  ELSE IF toks[1] = "trigger" /\ toks[2] \in {"on", "off"} THEN
    (IF Len(toks) >= 3
       THEN Accepted([sw EXCEPT !.on = IF toks[2] = "on" THEN sw.on \cup {toks[3]}
                                       ELSE sw.on \ {toks[3]}])
       ELSE Accepted(sw))
  ELSE IF toks[1] = "insert" THEN SwInsert(sw, toks[2], SubSeq(toks, 3, Len(toks)))
  ELSE IF toks[1] = "change" THEN SwChange(sw, toks[2], SubSeq(toks, 3, Len(toks)))
  ELSE IF toks[1] = "delete" THEN SwDelete(sw, toks[2], SubSeq(toks, 3, Len(toks)))
  ELSE Rejected(sw)

(***************************************************************************)
(* Names typed by the user, taggers, graph manager                         *)
(***************************************************************************)
\* str.find(ch) + 1: the position of the first ch in s, 0 when absent
CharIndex(s, ch) ==
  LET I == {i \in 1..Len(s) : SubSeq(s, i, i) = ch}
  IN  IF I = {} THEN 0 ELSE CHOOSE i \in I : \A j \in I : i <= j

\* flex_name_to_human_readable_name
flex_name_to_human_readable_name(flex_name) ==
  IF flex_name = "old_r" THEN [err |-> NoErr, name |-> " [root] "]
  ELSE IF flex_name = "old_s" THEN [err |-> NoErr, name |-> " [sink] "]
  ELSE IF PySlice(flex_name, 0, 4) = "flx_" THEN [err |-> NoErr, name |-> flex_name]
  ELSE IF Len(flex_name) < 5 THEN [err |-> "IndexError", name |-> ""]
  ELSE IF SubSeq(flex_name, 5, 5) = "t"
    THEN [err |-> NoErr,
          name |-> "table[" \o eliminate_type_letter_in_name(flex_name) \o "]"]
  ELSE IF SubSeq(flex_name, 5, 5) = "c"
    THEN [err |-> NoErr,
          name |-> "conditional[" \o eliminate_type_letter_in_name(flex_name) \o "]"]
  ELSE [err |-> ReconfigError, name |-> ""]

\* human_readable_name_to_flex_name: partition at the first "[", drop the
\* last character of what follows, put the kind letter after 4 characters
human_readable_name_to_flex_name(h) ==
  IF h = "[root]" THEN [err |-> NoErr, name |-> "old_r"]
  ELSE IF h = "[sink]" THEN [err |-> NoErr, name |-> "old_s"]
  ELSE IF PySlice(h, 0, 4) = "flx_" THEN [err |-> NoErr, name |-> h]
  ELSE LET k         == CharIndex(h, "[")
           type_name == IF k = 0 THEN h ELSE SubSeq(h, 1, k - 1)
           tmp       == IF k = 0 THEN "" ELSE SubSeq(h, k + 1, Len(h))
           node_name == IF tmp = "" THEN "" ELSE SubSeq(tmp, 1, Len(tmp) - 1)
       IN  IF type_name = "table"
             THEN [err |-> NoErr,
                   name |-> PySlice(node_name, 0, 4) \o "t" \o PyFrom(node_name, 4)]
           ELSE IF type_name = "conditional"
             THEN [err |-> NoErr,
                   name |-> PySlice(node_name, 0, 4) \o "c" \o PyFrom(node_name, 4)]
           ELSE [err |-> ReconfigError, name |-> ""]

\* mount_point.split("->"): the two sides when there is exactly one "->"
SplitMountPoint(mp) ==
  LET I == {i \in 1..(Len(mp) - 1) : SubSeq(mp, i, i + 1) = "->"}
  IN  IF Cardinality(I) # 1 THEN [err |-> ReconfigError, start |-> "", end |-> ""]
      ELSE LET i == CHOOSE x \in I : TRUE
           IN  [err |-> NoErr, start |-> SubSeq(mp, 1, i - 1),
                end |-> SubSeq(mp, i + 2, Len(mp))]

\* int(s) for a decimal numeral with an optional minus sign
IsDigit(c) == \E d \in 0..9 : NatToStr(d) = c

DigitVal(c) == CHOOSE d \in 0..9 : NatToStr(d) = c

RECURSIVE DigitsVal(_)
DigitsVal(s) ==
  IF s = "" THEN 0
  ELSE 10 * DigitsVal(SubSeq(s, 1, Len(s) - 1)) + DigitVal(SubSeq(s, Len(s), Len(s)))

ParseInt(s) ==
  LET neg  == Len(s) > 0 /\ SubSeq(s, 1, 1) = "-"
      body == IF neg THEN SubSeq(s, 2, Len(s)) ELSE s
  IN  IF body = "" \/ \E i \in 1..Len(body) : ~IsDigit(SubSeq(body, i, i))
        THEN [err |-> "ValueError", val |-> 0]
        ELSE [err |-> NoErr, val |-> IF neg THEN 0 - DigitsVal(body) ELSE DigitsVal(body)]

\* json.dump(sort_keys=True) writes the next_tables of a table by key; the
\* keys of the pipelines at hand, in Python's string order
SortedKeys == <<"__HIT__", "__MISS__", "hit", "miss">>

SortNextTables(nts) ==
  Flatten([k \in 1..Len(SortedKeys) |->
             SelectSeq(nts, LAMBDA nt : nt.label = SortedKeys[k])])
  \o SelectSeq(nts, LAMBDA nt : nt.label \notin Range(SortedKeys))

\* the flex_name every table and conditional gets from a tagger, and the
\* file as the tagger writes it back
Tagged(p, prefix) ==
  [p EXCEPT
     !.tables = [i \in 1..Len(p.tables) |->
                   [p.tables[i] EXCEPT
                      !.flex_name = prefix \o "t" \o p.tables[i].name,
                      !.next_tables = SortNextTables(p.tables[i].next_tables)]],
     !.conditionals = [i \in 1..Len(p.conditionals) |->
                         [p.conditionals[i] EXCEPT
                            !.flex_name = prefix \o "c" \o p.conditionals[i].name]]]

\* a tagger that writes the file before it looks for action_calls
TagInitThenRaise(p) ==
  [err |-> IF p.action_calls THEN ReconfigError ELSE NoErr, file |-> Tagged(p, "old_")]

\* update_init_forwarding_pipeline_json_file: [err, file], file being the
\* content of the input file after the call; the file is rewritten only
\* when no action_calls made the tagger raise
update_init_forwarding_pipeline_json_file(p) ==
  IF p.action_calls THEN [err |-> ReconfigError, file |-> p]
  ELSE [err |-> NoErr, file |-> Tagged(p, "old_")]

\* a tagger that does not look for action_calls
TagMergedAnyway(p) == [err |-> NoErr, file |-> Tagged(p, "new_")]

\* update_merged_json_file
update_merged_json_file(p) ==
  IF p.action_calls THEN [err |-> ReconfigError, file |-> p]
  ELSE [err |-> NoErr, file |-> Tagged(p, "new_")]

\* ProgramGraphManager: init_graph and cur_graph, EmptyGraph standing for None
NoGraph == EmptyGraph

ProgramGraphManager == [init_graph |-> NoGraph, cur_graph |-> NoGraph]

\* a manager that keeps one graph: every build replaces both fields
update_graph_both(mgr, p) ==
  LET graph == generate_graph(p)
  IN  IF graph.err # NoErr THEN [err |-> graph.err, mgr |-> mgr]
      ELSE [err |-> NoErr, mgr |-> [init_graph |-> graph.g, cur_graph |-> graph.g]]

\* update_graph: [err, mgr]; a failed build leaves both graphs as they were
update_graph(mgr, p) ==
  LET graph == generate_graph(p)
  IN  IF graph.err # NoErr THEN [err |-> graph.err, mgr |-> mgr]
      ELSE [err |-> NoErr,
            mgr |-> [init_graph |-> IF mgr.init_graph = NoGraph THEN graph.g
                                    ELSE mgr.init_graph,
                     cur_graph |-> graph.g]]

(***************************************************************************)
(* generate_migrate_json_file                                              *)
(***************************************************************************)
\* os.path.dirname / os.path.basename: around the last "/"
LastSlash(path) ==
  LET I == {i \in 1..Len(path) : SubSeq(path, i, i) = "/"}
  IN  IF I = {} THEN 0 ELSE CHOOSE i \in I : \A j \in I : j <= i

\* the path of the migrate file: dirname joined with the part of the
\* basename before its first "." and "_migrate.json"
MigratePath(path) ==
  LET ls   == LastSlash(path)
      base == SubSeq(path, ls + 1, Len(path))
      dot  == CharIndex(base, ".")
      stem == IF dot = 0 THEN base ELSE SubSeq(base, 1, dot - 1)
      dir  == IF ls = 0 THEN "" ELSE IF ls = 1 THEN "/" ELSE SubSeq(path, 1, ls - 1)
  IN  (IF dir = "" \/ dir = "/" THEN dir ELSE dir \o "/") \o stem \o "_migrate.json"

\* a migrate tagger that renames the mount branches as well
TagAllNew(p) == Tagged(p, "new_")

\* the runtime pipeline with every table renamed new_t<name> and every
\* conditional that is no mount branch renamed new_c<name>
MigrateTagged(p) ==
  [p EXCEPT
     !.tables = [i \in 1..Len(p.tables) |->
                   [p.tables[i] EXCEPT
                      !.flex_name = "new_t" \o p.tables[i].name,
                      !.next_tables = SortNextTables(p.tables[i].next_tables)]],
     !.conditionals = [i \in 1..Len(p.conditionals) |->
                         [p.conditionals[i] EXCEPT
                            !.flex_name =
                              IF PySlice(p.conditionals[i].flex_name, 0, 4) # "flx_"
                                THEN "new_c" \o p.conditionals[i].name
                                ELSE p.conditionals[i].flex_name]]]

\* generate_migrate_json_file: [err, file]; the migrate file is written only
\* when nothing raised
generate_migrate_json_file(p) ==
  IF \E i \in 1..Len(p.tables) : p.tables[i].flex_name = NoFlex
    THEN [err |-> ReconfigError, file |-> p]
  ELSE IF \E i \in 1..Len(p.conditionals) : p.conditionals[i].flex_name = NoFlex
    THEN [err |-> ReconfigError, file |-> p]
  ELSE IF p.action_calls THEN [err |-> ReconfigError, file |-> p]
  ELSE [err |-> NoErr, file |-> MigrateTagged(p)]

(***************************************************************************)
(* generate_migrate_func_commands                                          *)
(***************************************************************************)
\* nodes_to_be_added after the update loop and remove()
NodesToBeAdded(g, flex) == PathNodes(g, flex) \ {BranchNext(g, flex, "false_next")}

\* s0_migrate_json_graph.subgraph(nodes_to_be_added): the edges with both
\* ends among the nodes; walk is the order in which the view yields the nodes
Subgraph(g, walk) ==
  [nodes |-> walk,
   edges |-> SelectSeq(g.edges, LAMBDA e : e.u \in Range(walk) /\ e.v \in Range(walk))]

\* "insert <kind> ingress <name>" for every node to be added, in set order
MigrateInsertCommands(ord) ==
  [i \in 1..Len(ord) |->
     "insert " \o KindOf(ord[i]) \o " ingress " \o eliminate_type_letter_in_name(ord[i])]

\* the edge walk over the subgraph: a change for every edge that does not
\* end at old_s
MigrateChangeCommands(sub) ==
  LET pairs == EdgePairs(sub)
  IN  Flatten([i \in 1..Len(pairs) |->
        LET u == pairs[i][1]
            v == pairs[i][2]
        IN  IF v = "old_s" THEN <<>>
            ELSE <<"change " \o KindOf(u) \o " ingress " \o eliminate_type_letter_in_name(u)
                   \o " " \o EdgeTypes(sub, u, v)[UvCount(pairs, i) + 1]
                   \o " " \o eliminate_type_letter_in_name(v)>>])

\* control_block_end_nodes of the migrate planner: (u, type) of every
\* subgraph edge into old_s
MigrateEndNodes(sub) ==
  LET pairs == EdgePairs(sub)
  IN  Flatten([i \in 1..Len(pairs) |->
        LET u == pairs[i][1]
            v == pairs[i][2]
        IN  IF v = "old_s"
              THEN <<<<u, EdgeTypes(sub, u, "old_s")[UvCount(pairs, i) + 1]>>>>
              ELSE <<>>])

MigrateExitCommands(sub, s1_end_point) ==
  LET ens == MigrateEndNodes(sub)
  IN  [i \in 1..Len(ens) |->
         "change " \o KindOf(ens[i][1]) \o " ingress "
         \o eliminate_type_letter_in_name(ens[i][1])
         \o " " \o ens[i][2] \o " " \o NextToken(s1_end_point)]

\* the exception generate_migrate_func_commands ends with, in the order the
\* code reaches the raising statements; mj is the migrate file of s0, rt1 the
\* runtime file of s1
migrate_err(mj, k0, rt1, s1_start_point, s1_end_point, ord) ==
  LET g0    == generate_graph(mj)
      g1    == generate_graph(rt1)
      flex0 == MountBranch(k0)
  IN  IF g0.err # NoErr THEN g0.err
      ELSE IF g1.err # NoErr THEN g1.err
      ELSE IF ~HasAdj(g1.g, s1_start_point, s1_end_point) THEN "KeyError"
      ELSE IF flex0 \notin Range(g0.g.nodes) THEN "KeyError"
      ELSE IF Len(Nbrs(g0.g, flex0)) # 2 THEN ReconfigError
      ELSE IF BranchNext(g0.g, flex0, "true_next") = None THEN "TypeError"
      ELSE IF BranchNext(g0.g, flex0, "false_next") = None THEN "TypeError"
      ELSE IF BranchNext(g0.g, flex0, "false_next") \notin PathNodes(g0.g, flex0)
        THEN "KeyError"
      ELSE FirstErr([i \in 1..Len(ord) |-> KindErr(ord[i])]
                    \o (IF s1_start_point # "old_r" THEN <<KindErr(s1_start_point)>>
                        ELSE <<>>))

migrate_cmds(s0_name, mjpath, mj, k0, s1_name, rt1, s1_start_point, s1_end_point, k1, ord, walk) ==
  LET g0    == generate_graph(mj).g
      g1    == generate_graph(rt1).g
      flex0 == MountBranch(k0)
      flex1 == MountBranch(k1)
      sub   == Subgraph(g0, walk)
  IN  <<"connect " \o s1_name>>
      \o <<"init_p4objects_new " \o mjpath>>
      \o <<"insert flex ingress " \o flex1 \o " null null">>
      \o MigrateInsertCommands(ord)
      \o MigrateChangeCommands(sub)
      \o MigrateExitCommands(sub, s1_end_point)
      \o <<"change flex ingress " \o flex1 \o " false_next " \o NextToken(s1_end_point)>>
      \o <<"change flex ingress " \o flex1 \o " true_next "
           \o eliminate_type_letter_in_name(BranchNext(g0, flex0, "true_next"))>>
      \o RedirectCommands(g1, s1_start_point, s1_end_point, flex1)
      \o <<"trigger on " \o IntToStr(k1)>>
      \o <<"connect " \o s0_name>>

\* the orders in which the insert loop may visit nodes_to_be_added and the
\* subgraph view may yield its nodes; the empty order stands in when planning
\* fails before the set exists
AddOrders(mj, k0) ==
  LET g0 == generate_graph(mj)
  IN  IF g0.err = NoErr /\ MountBranch(k0) \in Range(g0.g.nodes)
        THEN Perms(NodesToBeAdded(g0.g, MountBranch(k0)))
        ELSE {<<>>}

\* ord: the iteration order of the set nodes_to_be_added; walk: the order of
\* the nodes of the subgraph view
generate_migrate_func_commands(s0_name, mjpath, mj, k0, s1_name, rt1, s1_start_point, s1_end_point, k1, ord, walk) ==
  IF migrate_err(mj, k0, rt1, s1_start_point, s1_end_point, ord) = NoErr
    THEN [err |-> NoErr,
          cmds |-> migrate_cmds(s0_name, mjpath, mj, k0, s1_name, rt1,
                                s1_start_point, s1_end_point, k1, ord, walk)]
    ELSE NoPlan(migrate_err(mj, k0, rt1, s1_start_point, s1_end_point, ord))

(***************************************************************************)
(* Inputs of the planners: tagged pipeline files.  Runtime pipelines carry *)
(* old_ names, nodes of earlier installs (new_) and mount branches (flx_); *)
(* merged pipelines are tagged new_ by update_merged_json_file.            *)
(***************************************************************************)
MaxRuntime == 5

MaxMerged == 4

MaxSlot == 4

Flx3 == "flx_flex_func_mount_point_number_$3$"

Flx4 == "flx_flex_func_mount_point_number_$4$"

\* old_r -> A -> B ? sink
PlainAB ==
  Pipe("A", <<Tbl("A", "old_tA", "B", <<>>)>>, <<Cnd("B", "old_cB", None, None)>>)

\* parallel edges A -> B under three labels, a conditional in between
ParallelABC ==
  Pipe("A",
       <<Tbl("A", "old_tA", "B", <<NT("hit", "B"), NT("miss", "C")>>),
         Tbl("B", "old_tB", None, <<>>)>>,
       <<Cnd("C", "old_cC", "B", None)>>)

\* PlainAB with table P mounted in slot 3 between A and B
MountedAB ==
  Pipe("A",
       <<Tbl("A", "old_tA", Flx3, <<>>), Tbl("P", "new_tP", "B", <<>>)>>,
       <<Cnd("B", "old_cB", None, None), Cnd(Flx3, Flx3, "P", "B")>>)

\* PlainAB with table P mounted in slot 3 between the root and A
MountedRoot ==
  Pipe(Flx3,
       <<Tbl("A", "old_tA", "B", <<>>), Tbl("P", "new_tP", "A", <<>>)>>,
       <<Cnd("B", "old_cB", None, None), Cnd(Flx3, Flx3, "P", "A")>>)

\* MountedAB with table Q mounted in slot 4 between A and the slot-3 branch
MountedTwice ==
  Pipe("A",
       <<Tbl("A", "old_tA", Flx4, <<>>), Tbl("P", "new_tP", "B", <<>>),
         Tbl("Q", "new_tQ", Flx3, <<>>)>>,
       <<Cnd("B", "old_cB", None, None), Cnd(Flx3, Flx3, "P", "B"),
         Cnd(Flx4, Flx4, "Q", Flx3)>>)

\* a conditional first, one table
CondFirst ==
  Pipe("C", <<Tbl("A", "old_tA", None, <<NT("hit", None)>>)>>,
       <<Cnd("C", "old_cC", "A", None)>>)

RuntimeCatalogue ==
  <<PlainAB, ParallelABC, MountedAB, MountedRoot, MountedTwice, CondFirst>>

RuntimePipelines ==
  {RuntimeCatalogue[i] : i \in 1..Min(MaxRuntime, Len(RuntimeCatalogue))}

\* one table
MergedX == Pipe("X", <<Tbl("X", "new_tX", None, <<>>)>>, <<>>)

\* two tables, parallel edges X -> Y, two exits
MergedXY ==
  Pipe("X",
       <<Tbl("X", "new_tX", "Y", <<NT("hit", "Y"), NT("miss", None)>>),
         Tbl("Y", "new_tY", None, <<>>)>>,
       <<>>)

\* a conditional entry in front of a table
MergedNX ==
  Pipe("N", <<Tbl("X", "new_tX", None, <<>>)>>, <<Cnd("N", "new_cN", "X", None)>>)

\* three tables; the edges of X are, as the file lists them, to Y, to Z and
\* to Y again
MergedXYZ ==
  Pipe("X",
       <<Tbl("X", "new_tX", "Y", <<NT("hit", "Z"), NT("miss", "Y")>>),
         Tbl("Y", "new_tY", None, <<>>),
         Tbl("Z", "new_tZ", None, <<>>)>>,
       <<>>)

\* a table whose two labels both leave the block
MergedExits ==
  Pipe("X", <<Tbl("X", "new_tX", None, <<NT("hit", None)>>)>>, <<>>)

MergedCatalogue == <<MergedX, MergedXY, MergedNX, MergedXYZ, MergedExits>>

MergedPipelines ==
  {MergedCatalogue[i] : i \in 1..Min(MaxMerged, Len(MergedCatalogue))}

\* the path merge_and_compile returns
MergedPath == "sswitch_grpc_cli_output/header-h.p4-control_block-c.p4-19579170/merged.json"

\* mount_point_number as the planners are called with: slots in use and free,
\* and the two numbers next to the range [0, 128)
Slots == (3..MaxSlot) \cup {-1, 128}

NoPipe == Pipe(None, <<>>, <<>>)

(***************************************************************************)
(* State                                                                   *)
(*  planner bench: one planning request, its plan, and the switch the      *)
(*  plan's primitives are applied to one by one                            *)
(***************************************************************************)
VARIABLES
  bOp,      \* "install", "uninstall" or "migrate": the request
  bRt,      \* the runtime pipeline file of the request (migrate: of the source)
  bDst,     \* the runtime pipeline file of the destination (migrate)
  bK1,      \* the destination's mount_point_number (migrate)
  bMg,      \* the merged pipeline file (install), the migrate file (migrate)
  bStart,   \* start_point (install; migrate: of the destination)
  bEnd,     \* end_point (install; migrate: of the destination)
  bK,       \* mount_point_number
  bPhase,   \* position of the bench
  bPlan,    \* [err, cmds]: what the planner returned or raised
  bIdx,     \* index of the next primitive of bPlan.cmds to apply
  bSw,      \* the switch
  bRound,   \* TRUE when the uninstall follows the install of this request
  bFiles,   \* the files an init_p4objects_new of the plan may open
  bConn,    \* the staging flags of the session and of its transport
  bOut,     \* the request handed to client_stub.Write and not yet answered
  bLast,    \* the exception that ended the loop over the plan, NoErr if none
  bApplied  \* the number of requests of the plan the switch has applied

benchVars == <<bOp, bRt, bDst, bK1, bMg, bStart, bEnd, bK, bPhase, bPlan, bIdx, bSw,
              bRound, bFiles, bConn, bOut, bLast, bApplied>>

(***************************************************************************)
(*  controller session: SSwitchGRPCCLI, its connections, the files it      *)
(*  reads and writes, the switches at the other end of the connections     *)
(***************************************************************************)
VARIABLES
  connections,     \* SSwitchGRPCCLI.connections, by switch name
  cur_connection,  \* name of SSwitchGRPCCLI.cur_connection, None if unset
  switches,        \* the switch behind each name
  fs,              \* the files: path -> pipeline description
  run,             \* the plan install_func / uninstall_func is looping over
  outstanding,     \* the requests handed to client_stub.Write and not yet answered
  sent,            \* every request handed to client_stub.Write, in order
  last,            \* how the last _exec_one_command call ended
  alive,           \* FALSE once exec_command_loop has left its loop
  returned,        \* number of returned_json_*.json files written
  ncmd,            \* number of commands read from the user
  script,          \* script[i]: the commands that may come as the i-th one
  entry            \* the function that runs the commands: "exec_command_loop"
                   \* (typed by the user) or "exec_script" (lines of a file)

sessVars == <<connections, cur_connection, switches, fs, run, outstanding, sent,
              last, alive, returned, ncmd, script, entry>>

(***************************************************************************)
(*  name bench: one flex name taken through the two conversions between    *)
(*  flex names and the names the user reads and types                      *)
(***************************************************************************)
VARIABLES
  nFlex,    \* the flex name
  nHuman,   \* [err, name] of flex_name_to_human_readable_name(nFlex)
  nBack,    \* [err, name] of human_readable_name_to_flex_name(nHuman.name)
  nAgain,   \* [err, name] of flex_name_to_human_readable_name(nBack.name)
  nPhase    \* how far the conversions went

nameVars == <<nFlex, nHuman, nBack, nAgain, nPhase>>

(***************************************************************************)
(*  tool bench: one call of the primitive parser, of the graph builder or  *)
(*  of a tagger, on one command or one pipeline description                *)
(***************************************************************************)
VARIABLES
  tOp,      \* the function called
  tCmd,     \* the command handed to RuntimeReconfigCommandParser
  tPipe,    \* the pipeline description in the file handed to the builder or tagger
  tOut,     \* what the call returned or raised
  tDone,    \* TRUE once the call is over
  tFiles    \* the files on disk: path -> pipeline description

toolVars == <<tOp, tCmd, tPipe, tOut, tDone, tFiles>>

vars == <<benchVars, sessVars, nameVars, toolVars>>

\* at most this many commands are read from a user who may type anything
MaxCmds == 4

SwitchNames == {"s1", "s2"}

OUTPUT_FOLDER == "sswitch_grpc_cli_output"

\* a session that is created with its staging flags set
StagedConnection ==
  [connected |-> TRUE,
   latest_config_json_path |-> None,
   program_graph_manager |-> ProgramGraphManager,
   already_init_p4objects_new |-> TRUE,
   tflag |-> TRUE]

\* SSwitchGRPCConnection.__init__; tflag is the already_init_p4objects_new
\* of the SwitchConnection inside bmv2_connection
SSwitchGRPCConnection ==
  [connected |-> TRUE,
   latest_config_json_path |-> None,
   program_graph_manager |-> ProgramGraphManager,
   already_init_p4objects_new |-> FALSE,
   tflag |-> FALSE]

\* a name that is not a key of SSwitchGRPCCLI.connections
NotConnected == [SSwitchGRPCConnection EXCEPT !.connected = FALSE]

\* a pipeline file as p4c writes it: no flex_name anywhere
Untagged(p) ==
  [p EXCEPT
     !.tables = [i \in 1..Len(p.tables) |-> [p.tables[i] EXCEPT !.flex_name = NoFlex]],
     !.conditionals = [i \in 1..Len(p.conditionals) |->
                         [p.conditionals[i] EXCEPT !.flex_name = NoFlex]]]

\* a file that is no pipeline (P4 source, P4Info): its text
TextFile(text) == [text |-> text]

\* the P4 sources of the function the user installs
HeaderText == "header h_t { bit<8> f; }"

ControlBlockText == "control X(inout headers hdr) { apply { } }"

\* a pipeline description whose init_table names no table or conditional
DanglingInit == Pipe("Z", <<Tbl("A", "old_tA", None, <<>>)>>, <<>>)

\* the files the user has: P4Info, two compiled programs, a pipeline JSON
\* whose init_table names no node, the P4 sources of a function
UserFiles ==
  [path \in {"p4info.txt", "a.json", "b.json", "d.json", "h.p4", "c.p4"} |->
     IF path = "a.json" THEN Untagged(PlainAB)
     ELSE IF path = "b.json" THEN Untagged(CondFirst)
     ELSE IF path = "d.json" THEN Untagged(DanglingInit)
     ELSE IF path = "h.p4" THEN TextFile(HeaderText)
     ELSE IF path = "c.p4" THEN TextFile(ControlBlockText)
     ELSE TextFile("pkg_info { arch: \"v1model\" }")]

\* files whose path is one character: RuntimeReconfig opens
\* parsed_cmd.action_arguments[0], and action_arguments is the path string
OneCharFiles == [path \in {"m", "s"} |-> MergedX]

\* f with the file at path (over)written
WriteFile(f, path, content) ==
  [q \in DOMAIN f \cup {path} |-> IF q = path THEN content ELSE f[q]]

\* str.find(sub): the 0-based position of the first sub in s, -1 when absent
Find(s, sub) ==
  LET I == {i \in 0..(Len(s) - Len(sub)) : SubSeq(s, i + 1, i + Len(sub)) = sub}
  IN  IF I = {} THEN -1 ELSE CHOOSE i \in I : \A j \in I : i <= j

\* a slice bound as Python reads it: negative bounds count from the end
SliceBound(n, len) ==
  IF n < 0 THEN (IF len + n < 0 THEN 0 ELSE len + n) ELSE Min(n, len)

\* Python s[i:j] for any integers i, j
PySliceAny(s, i, j) == SubSeq(s, SliceBound(i, Len(s)) + 1, SliceBound(j, Len(s)))

\* str.strip() of a string whose white space is blanks
Strip(s) ==
  LET I == {i \in 1..Len(s) : SubSeq(s, i, i) # " "}
  IN  IF I = {} THEN ""
      ELSE SubSeq(s, CHOOSE i \in I : \A j \in I : i <= j,
                     CHOOSE i \in I : \A j \in I : j <= i)

\* os.path.basename
Basename(path) == SubSeq(path, LastSlash(path) + 1, Len(path))

\* int(sha256(text).hexdigest(), 16) % 10 ** 8 of the texts the user has
HashCode(text) ==
  CASE text = HeaderText \o ControlBlockText -> 19579170
    [] text = ControlBlockText \o HeaderText -> 5021162
    [] text = HeaderText \o HeaderText -> 7045566
    [] text = ControlBlockText \o ControlBlockText -> 76115663

\* the text between "control" and "(" of the control block, stripped
ControlBlockName(control_block_str) ==
  Strip(PySliceAny(control_block_str, Find(control_block_str, "control") + 7,
                   Find(control_block_str, "(")))

\* p4prototype.PROTOTYPE_STR % control_block_name
PROTOTYPE_STR(control_block_name) == "#include <v1model.p4> " \o control_block_name

\* how the run of p4c ends: a non-zero exit status, status 0 without a
\* merged.json, status 0 with merged.json written
CompileOutcomes == {"failed", "no_json", "compiled"}

\* the pipeline p4c compiles the function's control block to
CompiledFunction == Untagged(MergedX)

\* os.path.join(output_path, output_folder_name): the folder of the function,
\* numbered by the hash of the header text followed by the control block text
FinalOutputPath(header_file_path, header_str, control_block_file_path, control_block_str, output_path) ==
  output_path \o "/header-" \o Basename(header_file_path) \o "-control_block-"
    \o Basename(control_block_file_path) \o "-"
    \o IntToStr(HashCode(header_str \o control_block_str))

\* merge_and_compile from makedirs on: the two sources are copied into the
\* folder, merged.p4 is written, p4c runs and merged.json is looked for
CompileMerged(files, header_file_path, control_block_file_path, merged_str, final_output_path, p4c) ==
  LET copied ==
        WriteFile(WriteFile(WriteFile(files,
          final_output_path \o "/headers.p4", files[header_file_path]),
          final_output_path \o "/control_block.p4", files[control_block_file_path]),
          final_output_path \o "/merged.p4", TextFile(merged_str))
      merged_json_file_path == final_output_path \o "/merged.json"
      compiled == IF p4c = "compiled"
                    THEN WriteFile(copied, merged_json_file_path, CompiledFunction)
                    ELSE copied
  IN  [err   |-> IF p4c = "failed" THEN ReconfigError
                 ELSE IF merged_json_file_path \notin DOMAIN compiled THEN "AttributeError"
                 ELSE NoErr,
       path  |-> merged_json_file_path,
       files |-> compiled]

\* merge_and_compile on the files `files`, p4c ending as `p4c` says:
\* [err, path, files], files the file system the call leaves behind
merge_and_compile(files, header_file_path, control_block_file_path, output_path, p4c) ==
  CompileMerged(files, header_file_path, control_block_file_path,
                PROTOTYPE_STR(ControlBlockName(files[control_block_file_path].text)),
                FinalOutputPath(header_file_path, files[header_file_path].text,
                                control_block_file_path, files[control_block_file_path].text,
                                output_path),
                p4c)

\* os.path.join(OUTPUT_FOLDER, "returned_json_<time>.json"): the n-th one
ReturnedPath(n) == OUTPUT_FOLDER \o "/returned_json_" \o IntToStr(n) \o ".json"

\* what the user may type
UserCommands ==
  {"connect s1 127.0.0.1:50051 0",
   "connect s2 127.0.0.1:50052 1",
   "connect s1",
   "connect s2",
   "set_forwarding_pipeline_config p4info.txt a.json",
   "set_forwarding_pipeline_config p4info.txt b.json",
   "set_forwarding_pipeline_config p4info.txt missing.json",
   "set_forwarding_pipeline_config p4info.txt d.json",
   "init_p4objects_new m.json",
   "insert tabl ingress new_X",
   "change tabl ingress old_A base_default_next new_X",
   "trigger on",
   "trigger on 3",
   "install_func h.p4 c.p4 table[old_A]->conditional[old_B] 3",
   "install_func h.p4 c.p4 [root]->table[old_A] 3",
   "uninstall_func 3",
   "migrate_func 3 s2 table[old_A]->conditional[old_B] 4"}

\* no install_func / uninstall_func / migrate_func loop is running; otherwise
\* idx is the loop index + 1, base is Len(sent), stored the number of
\* returned files and sw the active connection when the loop began
NoRun == [kind |-> "none", cmds |-> <<>>, idx |-> 0, base |-> 0, stored |-> 0, sw |-> None]

\* how a call of _exec_one_command went so far: the command, the exception
\* (NoErr if none) and where: "read" (a command of the user), "plan" (a
\* command of a plan, before its request leaves) or "response"
Outcome(cmd, err, step) == [cmd |-> cmd, err |-> err, step |-> step]

SessInit ==
  /\ connections = [n \in SwitchNames |-> NotConnected]
  /\ cur_connection = None
  /\ switches = [n \in SwitchNames |-> NewSwitch(NoPipe)]
  /\ fs \in {UserFiles,
             [q \in DOMAIN UserFiles \cup DOMAIN OneCharFiles |->
                IF q \in DOMAIN UserFiles THEN UserFiles[q] ELSE OneCharFiles[q]]}
  /\ run = NoRun
  /\ outstanding = <<>>
  /\ sent = <<>>
  /\ last = Outcome("", NoErr, "start")
  /\ alive = TRUE
  /\ returned = 0
  /\ ncmd = 0
  /\ script = [i \in 1..MaxCmds |-> UserCommands]
  /\ entry \in {"exec_command_loop", "exec_script"}

\* no conversion result yet
NoName == [err |-> NoErr, name |-> ""]

\* the name bench is not used
NamesIdle ==
  /\ nFlex = ""
  /\ nHuman = NoName
  /\ nBack = NoName
  /\ nAgain = NoName
  /\ nPhase = "idle"

\* no call result yet
NoOut == [err |-> NoErr]

\* the tool bench is not used
ToolsIdle ==
  /\ tOp = "none"
  /\ tCmd = ""
  /\ tPipe = NoPipe
  /\ tOut = NoOut
  /\ tDone = FALSE
  /\ tFiles = <<>>

\* the bench is not used
BenchIdle ==
  /\ bOp = "none"
  /\ bRt = NoPipe
  /\ bDst = NoPipe
  /\ bK1 = 0
  /\ bMg = NoPipe
  /\ bStart = ""
  /\ bEnd = ""
  /\ bK = 0
  /\ bPhase = "idle"
  /\ bPlan = NoPlan(NoErr)
  /\ bIdx = 1
  /\ bSw = NewSwitch(NoPipe)
  /\ bRound = FALSE
  /\ bFiles = <<>>
  /\ bConn = [already_init_p4objects_new |-> FALSE, tflag |-> FALSE]
  /\ bOut = <<>>
  /\ bLast = NoErr
  /\ bApplied = 0

\* the session is not used
SessIdle ==
  /\ connections = [n \in SwitchNames |-> NotConnected]
  /\ cur_connection = None
  /\ switches = [n \in SwitchNames |-> NewSwitch(NoPipe)]
  /\ fs = UserFiles
  /\ run = NoRun
  /\ outstanding = <<>>
  /\ sent = <<>>
  /\ last = Outcome("", NoErr, "start")
  /\ alive = FALSE
  /\ returned = 0
  /\ ncmd = 0
  /\ script = <<>>
  /\ entry = "exec_command_loop"

(***************************************************************************)
(* SSwitchGRPCCLI._exec_one_command                                        *)
(***************************************************************************)
\* the branch of _exec_one_command a command takes
CommandKind(cmd) ==
  LET parsed_command == Split(cmd)
  IN  IF parsed_command = <<>> THEN "IndexError"
      ELSE IF Len(parsed_command) = 1
              /\ parsed_command[1] \in {"h", "help", "detailed_help", "list_switches",
                                        "show_program_graph"}
        THEN parsed_command[1]
      ELSE IF parsed_command[1] = "connect" /\ Len(parsed_command) = 2 THEN "connect"
      ELSE IF parsed_command[1] = "connect" /\ Len(parsed_command) = 4 THEN "connect_new"
      ELSE IF parsed_command[1] = "set_forwarding_pipeline_config" /\ Len(parsed_command) = 3
        THEN "set_forwarding_pipeline_config"
      ELSE IF parsed_command[1] = "install_func" /\ Len(parsed_command) = 5
        THEN "install_func"
      ELSE IF parsed_command[1] = "uninstall_func" /\ Len(parsed_command) = 2
        THEN "uninstall_func"
      ELSE IF parsed_command[1] = "migrate_func" /\ Len(parsed_command) = 5
        THEN "migrate_func"
      ELSE "runtime_reconfig"

\* a client without the staging guard
NeedsStagingAlways(action, already_init_p4objects_new) == FALSE

\* the guard on a primitive other than init_p4objects_new: the staging
\* area must have been loaded
NeedsStaging(action, already_init_p4objects_new) == action # "init_p4objects_new" /\ ~already_init_p4objects_new

\* s[0] of a Python string
FirstChar(s) == SubSeq(s, 1, 1)

\* the exception RuntimeReconfig ends with before its request is written:
\* its own guard, the open() of the init file, the misspelt field of
\* `insert cond`, the two arguments `change init` reads
RuntimeReconfigErr(parsed_cmd, already_init_p4objects_new, files) ==
  IF NeedsStaging(parsed_cmd.action, already_init_p4objects_new) THEN ReconfigError
  ELSE IF parsed_cmd.action = "init_p4objects_new"
    THEN (IF FirstChar(parsed_cmd.action_arguments) \in DOMAIN files THEN NoErr
          ELSE "FileNotFoundError")
  ELSE IF parsed_cmd.action = "insert" /\ parsed_cmd.action_target = "cond"
    THEN "AttributeError"
  ELSE IF parsed_cmd.action = "change" /\ parsed_cmd.action_target = "init"
          /\ Len(parsed_cmd.action_arguments) < 2
    THEN "IndexError"
  ELSE NoErr

\* the request as RuntimeReconfig encodes it, as the tokens of a primitive:
\* the init file is named by the first character of the path, trigger
\* compares the first character of its argument with "on" and carries no
\* slot, a branch label other than true_next means false_next
RuntimeReconfigRequest(parsed_cmd) ==
  IF parsed_cmd.action = "init_p4objects_new"
    THEN <<"init_p4objects_new", FirstChar(parsed_cmd.action_arguments)>>
  ELSE IF parsed_cmd.action = "trigger"
    THEN <<"trigger", IF FirstChar(parsed_cmd.action_arguments) = "on" THEN "on" ELSE "off">>
  ELSE IF parsed_cmd.action = "change" /\ parsed_cmd.action_target \in {"cond", "flex"}
    THEN <<"change", parsed_cmd.action_target, parsed_cmd.action_arguments[1],
           parsed_cmd.action_arguments[2],
           IF parsed_cmd.action_arguments[3] = "true_next" THEN "true_next" ELSE "false_next",
           parsed_cmd.action_arguments[4]>>
  ELSE <<parsed_cmd.action, parsed_cmd.action_target>> \o parsed_cmd.action_arguments

\* the content of the file an init_p4objects_new request carries
RequestFile(parsed_cmd, files) ==
  IF parsed_cmd.action = "init_p4objects_new"
    THEN files[FirstChar(parsed_cmd.action_arguments)]
    ELSE NoPipe

\* the exception the runtime-reconfig branch ends with before any request is
\* written (NoErr: the request is written)
IssueErr(cmd, cur, conns, files) ==
  IF cur = None THEN ReconfigWarning
  ELSE IF conns[cur].latest_config_json_path = None THEN ReconfigWarning
  ELSE IF parse_err(cmd) = ReconfigError THEN ReconfigWarning
  ELSE IF parse_err(cmd) # NoErr THEN parse_err(cmd)
  ELSE IF NeedsStaging(RuntimeReconfigCommandParser(cmd).action,
                       conns[cur].already_init_p4objects_new)
    THEN ReconfigWarning
  ELSE RuntimeReconfigErr(RuntimeReconfigCommandParser(cmd), conns[cur].tflag, files)

\* a client that does not wait for the response
NeverBlocked(o) == FALSE

\* client_stub.Write returns only with the response: the caller is blocked
\* while a request is unanswered
Blocked(o) == o # <<>>

\* a loop that catches the exception and goes on
KeepRunning(r) == r

\* the loop of _install_func / _uninstall_func after an exception of
\* _exec_one_command: the exception leaves the loop
AfterRaise(r) == NoRun

\* the loop after _exec_one_command returned
AfterReturn(r) ==
  IF r.kind = "none" THEN r
  ELSE IF r.idx < Len(r.cmds) THEN [r EXCEPT !.idx = r.idx + 1]
  ELSE NoRun

\* exec_command_loop after an exception of _exec_one_command: TRUE when it
\* goes on to read the next command, which it does after a
\* P4RuntimeReconfigWarning only
exec_command_loop(err) == err = ReconfigWarning

\* exec_script after an exception of _exec_one_command: every except clause
\* breaks, the lines that follow are not executed
exec_script(err) == FALSE

\* _exec_one_command raises err: the loop over a plan is left, and the
\* function that runs the commands goes on or stops
Raise(cmd, err, step) ==
  /\ last' = Outcome(cmd, err, step)
  /\ alive' = IF entry = "exec_script" THEN exec_script(err) ELSE exec_command_loop(err)
  /\ run' = AfterRaise(run)

Return(cmd, step) ==
  /\ last' = Outcome(cmd, NoErr, step)
  /\ alive' = TRUE

\* the loop is at its prompt
AtPrompt ==
  /\ alive
  /\ run.kind = "none"
  /\ ~Blocked(outstanding)
  /\ ncmd < Len(script)

\* connect <name> <address> <device_id>: a new connection replaces the one
\* stored under the name; ok: MasterArbitrationUpdate went through
ConnectNew ==
  /\ AtPrompt
  /\ \E cmd \in script[ncmd + 1], ok \in BOOLEAN :
       LET parsed_command == Split(cmd)
       IN  /\ CommandKind(cmd) = "connect_new"
           /\ parsed_command[2] \in SwitchNames
           /\ IF ParseInt(parsed_command[4]).err # NoErr
                THEN /\ Raise(cmd, ParseInt(parsed_command[4]).err, "read")
                     /\ UNCHANGED <<connections, cur_connection>>
              ELSE IF ~ok
                THEN /\ Raise(cmd, "RpcError", "read")
                     /\ UNCHANGED <<connections, cur_connection>>
              ELSE /\ connections' = [connections EXCEPT
                                        ![parsed_command[2]] = SSwitchGRPCConnection]
                   /\ cur_connection' = parsed_command[2]
                   /\ Return(cmd, "read")
                   /\ UNCHANGED run
  /\ ncmd' = ncmd + 1
  /\ UNCHANGED <<switches, fs, outstanding, sent, returned, script, entry, benchVars, nameVars, toolVars>>

\* self.cur_connection = self.connections[name]
ConnectTarget(cur, name) == name

\* the branch connect <name> of _exec_one_command
ConnectTo(cmd, step) ==
  LET parsed_command == Split(cmd)
  IN  IF parsed_command[2] \in SwitchNames /\ connections[parsed_command[2]].connected
        THEN /\ cur_connection' = ConnectTarget(cur_connection, parsed_command[2])
             /\ Return(cmd, step)
             /\ run' = AfterReturn(run)
        ELSE /\ Raise(cmd, ReconfigWarning, step)
             /\ UNCHANGED cur_connection

\* connect <name> typed by the user
Connect ==
  /\ AtPrompt
  /\ \E cmd \in script[ncmd + 1] :
       /\ CommandKind(cmd) = "connect"
       /\ ConnectTo(cmd, "read")
  /\ ncmd' = ncmd + 1
  /\ UNCHANGED <<connections, switches, fs, outstanding, sent, returned, script, entry, benchVars, nameVars, toolVars>>

\* set_forwarding_pipeline_config <p4info_path> <bmv2_json_path>; ok: the
\* SetForwardingPipelineConfig RPC went through
SetForwardingPipelineConfig ==
  /\ AtPrompt
  /\ \E cmd \in script[ncmd + 1], ok \in BOOLEAN :
       LET parsed_command == Split(cmd)
           p4info_path    == parsed_command[2]
           bmv2_json_path == parsed_command[3]
       IN  /\ CommandKind(cmd) = "set_forwarding_pipeline_config"
           /\ IF cur_connection = None
                THEN /\ Raise(cmd, ReconfigWarning, "read")
                     /\ UNCHANGED <<connections, switches, fs>>
              ELSE IF p4info_path \notin DOMAIN fs \/ bmv2_json_path \notin DOMAIN fs
                THEN /\ Raise(cmd, ReconfigError, "read")
                     /\ UNCHANGED <<connections, switches, fs>>
              ELSE
                LET tagged == update_init_forwarding_pipeline_json_file(fs[bmv2_json_path])
                    conn   == connections[cur_connection]
                    graph  == update_graph(conn.program_graph_manager, tagged.file)
                IN  IF tagged.err # NoErr
                      THEN /\ Raise(cmd, tagged.err, "read")
                           /\ UNCHANGED <<connections, switches, fs>>
                    ELSE IF ~ok
                      THEN /\ Raise(cmd, "RpcError", "read")
                           /\ fs' = WriteFile(fs, bmv2_json_path, tagged.file)
                           /\ UNCHANGED <<connections, switches>>
                    ELSE /\ fs' = WriteFile(fs, bmv2_json_path, tagged.file)
                         /\ switches' = [switches EXCEPT
                                           ![cur_connection].pipe = tagged.file]
                         /\ IF graph.err # NoErr
                              THEN /\ connections' =
                                        [connections EXCEPT ![cur_connection] =
                                           [conn EXCEPT !.latest_config_json_path =
                                                           bmv2_json_path]]
                                   /\ Raise(cmd, graph.err, "read")
                              ELSE /\ connections' =
                                        [connections EXCEPT ![cur_connection] =
                                           [conn EXCEPT
                                              !.latest_config_json_path = bmv2_json_path,
                                              !.program_graph_manager = graph.mgr]]
                                   /\ Return(cmd, "read")
                                   /\ UNCHANGED run
  /\ ncmd' = ncmd + 1
  /\ UNCHANGED <<cur_connection, outstanding, sent, returned, script, entry, benchVars, nameVars, toolVars>>

\* a client that sends every request over the connection named s1
RequestToFirst(cur, cmd) == [sw |-> "s1", cmd |-> cmd]

\* self.cur_connection.bmv2_connection.RuntimeReconfig(parsed_cmd): the
\* request goes over the active connection
Request(cur, cmd) == [sw |-> cur, cmd |-> cmd]

\* the runtime-reconfig branch up to client_stub.Write: the request leaves
\* or an exception ends the call
Issue(cmd, step) ==
  IF IssueErr(cmd, cur_connection, connections, fs) # NoErr
    THEN /\ Raise(cmd, IssueErr(cmd, cur_connection, connections, fs), step)
         /\ UNCHANGED <<sent, outstanding>>
    ELSE /\ sent' = Append(sent, Request(cur_connection, cmd))
         /\ outstanding' = Append(outstanding, Request(cur_connection, cmd))
         /\ Return(cmd, step)
         /\ UNCHANGED run

\* a primitive typed by the user
RuntimeReconfigCommand ==
  /\ AtPrompt
  /\ \E cmd \in script[ncmd + 1] :
       /\ CommandKind(cmd) = "runtime_reconfig"
       /\ Issue(cmd, "read")
  /\ ncmd' = ncmd + 1
  /\ UNCHANGED <<connections, cur_connection, switches, fs, returned, script, entry, benchVars, nameVars, toolVars>>

\* the loop of _install_func / _uninstall_func / _migrate_func hands its
\* next command to _exec_one_command: a connect of a migrate plan takes the
\* connect branch, every other command the runtime-reconfig branch
PlanStep ==
  /\ alive
  /\ run.kind # "none"
  /\ ~Blocked(outstanding)
  /\ IF CommandKind(run.cmds[run.idx]) = "connect"
       THEN /\ ConnectTo(run.cmds[run.idx], "plan")
            /\ UNCHANGED <<sent, outstanding>>
       ELSE /\ Issue(run.cmds[run.idx], "plan")
            /\ UNCHANGED cur_connection
  /\ UNCHANGED <<connections, switches, fs, returned, ncmd, script, entry, benchVars, nameVars, toolVars>>

\* _install_func after merge_and_compile returned `merged`: the tagger
\* rewrites merged.json and the planner runs
PlanMerged(merged, latest, mount_point, mount_point_number) ==
  LET tagged   == update_merged_json_file(merged.files[merged.path])
      written  == WriteFile(merged.files, merged.path, tagged.file)
      mp       == SplitMountPoint(mount_point)
      start    == human_readable_name_to_flex_name(mp.start)
      end      == human_readable_name_to_flex_name(mp.end)
      plan     == generate_install_func_commands(written[latest], merged.path,
                                                 written[merged.path], start.name,
                                                 end.name, mount_point_number)
  IN  IF merged.err # NoErr
        THEN [err |-> merged.err, files |-> merged.files, cmds |-> <<>>]
      ELSE IF tagged.err # NoErr
        THEN [err |-> tagged.err, files |-> merged.files, cmds |-> <<>>]
      ELSE IF mp.err # NoErr THEN [err |-> mp.err, files |-> written, cmds |-> <<>>]
      ELSE IF start.err # NoErr THEN [err |-> start.err, files |-> written, cmds |-> <<>>]
      ELSE IF end.err # NoErr THEN [err |-> end.err, files |-> written, cmds |-> <<>>]
      ELSE [err |-> plan.err, files |-> written, cmds |-> plan.cmds]

\* _install_func up to its loop: [err, files, cmds]; files is the file
\* system the call leaves behind (merge_and_compile writes the folder of the
\* function, the tagger rewrites merged.json)
install_func_plan(files, latest, h, c, mount_point, mount_point_number, p4c) ==
  PlanMerged(merge_and_compile(files, h, c, OUTPUT_FOLDER, p4c), latest, mount_point,
             mount_point_number)

\* the checks of the install_func branch before _install_func is called
install_func_err(parsed_command, cur, conns, files) ==
  IF cur = None THEN ReconfigWarning
  ELSE IF ParseInt(parsed_command[5]).err # NoErr THEN ParseInt(parsed_command[5]).err
  ELSE IF conns[cur].latest_config_json_path = None THEN ReconfigWarning
  ELSE IF parsed_command[2] \notin DOMAIN files THEN ReconfigError
  ELSE IF parsed_command[3] \notin DOMAIN files THEN ReconfigError
  ELSE IF ParseInt(parsed_command[5]).val < 0 \/ ParseInt(parsed_command[5]).val >= 128
    THEN ReconfigWarning
  ELSE NoErr

\* install_func <header> <control_block> <mount_point> <mount_point_number>:
\* the checks and the planning; the loop over the plan is PlanStep
InstallFunc ==
  /\ AtPrompt
  /\ \E cmd \in script[ncmd + 1], p4c \in CompileOutcomes :
       LET parsed_command == Split(cmd)
           err  == install_func_err(parsed_command, cur_connection, connections, fs)
           plan == install_func_plan(fs, connections[cur_connection].latest_config_json_path,
                                     parsed_command[2], parsed_command[3], parsed_command[4],
                                     ParseInt(parsed_command[5]).val, p4c)
       IN  /\ CommandKind(cmd) = "install_func"
           /\ IF err # NoErr
                THEN /\ Raise(cmd, err, "read")
                     /\ UNCHANGED fs
              ELSE IF plan.err # NoErr
                THEN /\ Raise(cmd, plan.err, "read")
                     /\ fs' = plan.files
              ELSE /\ fs' = plan.files
                   /\ run' = [kind |-> "install_func", cmds |-> plan.cmds, idx |-> 1,
                              base |-> Len(sent), stored |-> returned,
                              sw |-> cur_connection]
                   /\ Return(cmd, "read")
  /\ ncmd' = ncmd + 1
  /\ UNCHANGED <<connections, cur_connection, switches, outstanding, sent, returned,
                 script, entry, benchVars, nameVars, toolVars>>

\* the checks of the uninstall_func branch before _uninstall_func is called
uninstall_func_err(parsed_command, cur, conns) ==
  IF cur = None THEN ReconfigWarning
  ELSE IF ParseInt(parsed_command[2]).err # NoErr THEN ParseInt(parsed_command[2]).err
  ELSE IF conns[cur].latest_config_json_path = None THEN ReconfigWarning
  ELSE IF ~conns[cur].already_init_p4objects_new THEN ReconfigWarning
  ELSE IF ParseInt(parsed_command[2]).val < 0 \/ ParseInt(parsed_command[2]).val >= 128
    THEN ReconfigWarning
  ELSE NoErr

\* uninstall_func <mount_point_number>; ord: the order in which the planner
\* iterates over its set of nodes to delete
UninstallFunc ==
  /\ AtPrompt
  /\ \E cmd \in script[ncmd + 1] :
       LET parsed_command == Split(cmd)
           err == uninstall_func_err(parsed_command, cur_connection, connections)
           rt  == fs[connections[cur_connection].latest_config_json_path]
           k   == ParseInt(parsed_command[2]).val
       IN  /\ CommandKind(cmd) = "uninstall_func"
           /\ IF err # NoErr
                THEN Raise(cmd, err, "read")
                ELSE \E ord \in DeleteOrders(rt, k) :
                       LET plan == generate_uninstall_func_commands(rt, k, ord)
                       IN  IF plan.err # NoErr
                             THEN Raise(cmd, plan.err, "read")
                             ELSE /\ run' = [kind |-> "uninstall_func", cmds |-> plan.cmds,
                                             idx |-> 1, base |-> Len(sent),
                                             stored |-> returned,
                                             sw |-> cur_connection]
                                  /\ Return(cmd, "read")
  /\ ncmd' = ncmd + 1
  /\ UNCHANGED <<connections, cur_connection, switches, fs, outstanding, sent, returned,
                 script, entry, benchVars, nameVars, toolVars>>

\* _migrate_func up to its loop: [err, files, cmds]; files is the file
\* system the call leaves behind (generate_migrate_json_file writes the
\* migrate file next to the source's latest file)
migrate_func_plan(files, s0_name, latest0, k0, s1_name, latest1, mount_point, k1, ord, walk) ==
  LET mj      == generate_migrate_json_file(files[latest0])
      mjpath  == MigratePath(latest0)
      written == WriteFile(files, mjpath, mj.file)
      mp      == SplitMountPoint(mount_point)
      start   == human_readable_name_to_flex_name(mp.start)
      end     == human_readable_name_to_flex_name(mp.end)
      plan    == generate_migrate_func_commands(s0_name, mjpath, written[mjpath], k0,
                                                s1_name, written[latest1], start.name,
                                                end.name, k1, ord, walk)
  IN  IF mj.err # NoErr THEN [err |-> mj.err, files |-> files, cmds |-> <<>>]
      ELSE IF mp.err # NoErr THEN [err |-> mp.err, files |-> written, cmds |-> <<>>]
      ELSE IF start.err # NoErr THEN [err |-> start.err, files |-> written, cmds |-> <<>>]
      ELSE IF end.err # NoErr THEN [err |-> end.err, files |-> written, cmds |-> <<>>]
      ELSE [err |-> plan.err, files |-> written, cmds |-> plan.cmds]

\* the checks of the migrate_func branch before _migrate_func is called
migrate_func_err(parsed_command, cur, conns) ==
  IF cur = None THEN ReconfigWarning
  ELSE IF ParseInt(parsed_command[2]).err # NoErr THEN ParseInt(parsed_command[2]).err
  ELSE IF ParseInt(parsed_command[5]).err # NoErr THEN ParseInt(parsed_command[5]).err
  ELSE IF parsed_command[3] \notin SwitchNames THEN ReconfigWarning
  ELSE IF ~conns[parsed_command[3]].connected THEN ReconfigWarning
  ELSE IF conns[cur].latest_config_json_path = None
          \/ conns[parsed_command[3]].latest_config_json_path = None
    THEN ReconfigWarning
  ELSE IF ParseInt(parsed_command[2]).val < 0 \/ ParseInt(parsed_command[2]).val >= 128
    THEN ReconfigWarning
  ELSE IF ParseInt(parsed_command[5]).val < 0 \/ ParseInt(parsed_command[5]).val >= 128
    THEN ReconfigWarning
  ELSE NoErr

\* the iteration orders open to the migrate planner on the source's latest
\* file
MigrateOrders(files, latest0, k0) ==
  IF generate_migrate_json_file(files[latest0]).err = NoErr
    THEN AddOrders(generate_migrate_json_file(files[latest0]).file, k0)
    ELSE {<<>>}

\* migrate_func <slot here> <other switch> <mount point there> <slot there>:
\* the checks and the planning; the loop over the plan is PlanStep
MigrateFunc ==
  /\ AtPrompt
  /\ \E cmd \in script[ncmd + 1] :
       LET parsed_command == Split(cmd)
           err     == migrate_func_err(parsed_command, cur_connection, connections)
           latest0 == connections[cur_connection].latest_config_json_path
           latest1 == connections[parsed_command[3]].latest_config_json_path
           k0      == ParseInt(parsed_command[2]).val
           k1      == ParseInt(parsed_command[5]).val
       IN  /\ CommandKind(cmd) = "migrate_func"
           /\ IF err # NoErr
                THEN /\ Raise(cmd, err, "read")
                     /\ UNCHANGED fs
                ELSE \E ord \in MigrateOrders(fs, latest0, k0) :
                     \E walk \in MigrateOrders(fs, latest0, k0) :
                       LET plan == migrate_func_plan(fs, cur_connection, latest0, k0,
                                                     parsed_command[3], latest1,
                                                     parsed_command[4], k1, ord, walk)
                       IN  IF plan.err # NoErr
                             THEN /\ Raise(cmd, plan.err, "read")
                                  /\ fs' = plan.files
                             ELSE /\ fs' = plan.files
                                  /\ run' = [kind |-> "migrate_func", cmds |-> plan.cmds,
                                             idx |-> 1, base |-> Len(sent),
                                             stored |-> returned, sw |-> cur_connection]
                                  /\ Return(cmd, "read")
  /\ ncmd' = ncmd + 1
  /\ UNCHANGED <<connections, cur_connection, switches, outstanding, sent, returned,
                 script, entry, benchVars, nameVars, toolVars>>

\* what comes back to the caller of RuntimeReconfig once the switch has
\* applied the request: no response object, one whose JSON is no string, or
\* the pipeline JSON; "rpc_error": the call fails before the switch acts
Responses == {"rpc_error", "none", "not_str", "json"}

\* the switch answers the unanswered request, and _exec_one_command goes on
\* from client_stub.Write to its end
Respond ==
  /\ alive
  /\ outstanding # <<>>
  /\ \E response \in Responses :
       LET sw     == outstanding[1].sw
           cmd    == outstanding[1].cmd
           parsed == RuntimeReconfigCommandParser(cmd)
           init   == parsed.action = "init_p4objects_new"
           r      == SwitchApply(switches[sw], RuntimeReconfigRequest(parsed),
                                 RequestFile(parsed, fs))
           conn   == [connections[sw] EXCEPT !.tflag = @ \/ init]
           path   == ReturnedPath(returned + 1)
           graph  == update_graph(conn.program_graph_manager, r.sw.pipe)
       IN  IF r.err # NoErr \/ response = "rpc_error"
             THEN /\ Raise(cmd, "RpcError", "response")
                  /\ UNCHANGED <<connections, switches, fs, returned>>
           ELSE IF response = "none"
             THEN /\ Raise(cmd, "AttributeError", "response")
                  /\ switches' = [switches EXCEPT ![sw] = r.sw]
                  /\ connections' = [connections EXCEPT ![sw] = conn]
                  /\ UNCHANGED <<fs, returned>>
           ELSE IF response = "not_str"
             THEN /\ Raise(cmd, ReconfigError, "response")
                  /\ switches' = [switches EXCEPT ![sw] = r.sw]
                  /\ connections' = [connections EXCEPT ![sw] = conn]
                  /\ UNCHANGED <<fs, returned>>
           ELSE /\ switches' = [switches EXCEPT ![sw] = r.sw]
                /\ fs' = WriteFile(fs, path, r.sw.pipe)
                /\ returned' = returned + 1
                /\ IF graph.err # NoErr
                     THEN /\ connections' = [connections EXCEPT ![sw] =
                                               [conn EXCEPT !.latest_config_json_path = path]]
                          /\ Raise(cmd, graph.err, "response")
                     ELSE /\ connections' = [connections EXCEPT ![sw] =
                               [conn EXCEPT
                                  !.latest_config_json_path = path,
                                  !.program_graph_manager = graph.mgr,
                                  !.already_init_p4objects_new = @ \/ init]]
                          /\ run' = AfterReturn(run)
                          /\ Return(cmd, "response")
  /\ outstanding' = Tail(outstanding)
  /\ UNCHANGED <<cur_connection, sent, ncmd, script, entry, benchVars, nameVars, toolVars>>

Init == SessInit /\ BenchIdle /\ NamesIdle /\ ToolsIdle

Next ==
  \/ ConnectNew
  \/ Connect
  \/ SetForwardingPipelineConfig
  \/ RuntimeReconfigCommand
  \/ InstallFunc
  \/ UninstallFunc
  \/ MigrateFunc
  \/ PlanStep
  \/ Respond

Spec == Init /\ [][Next]_vars

(***************************************************************************)
(* A session that gets as far as a migrate: the user sets the pipeline of  *)
(* both switches, installs a function in slot 3 of s1 and then types one   *)
(* migrate_func (or an uninstall_func of a free slot) and one more command *)
(***************************************************************************)
MigrateCommands ==
  {"migrate_func 3 s2 table[old_A]->conditional[old_B] 4",
   "migrate_func 3 s2 table[old_A]->conditional[old_B] 3",
   "migrate_func 4 s2 table[old_A]->conditional[old_B] 4",
   "migrate_func 3 s2 conditional[old_B]->table[old_A] 4",
   "migrate_func 3 s2 table[old_A]->conditional[old_B] 128",
   "migrate_func 3 s1 table[old_A]->flx_flex_func_mount_point_number_$3$ 4"}

AfterMigrateCommands ==
  {"connect s1", "uninstall_func 3", "insert tabl ingress new_X"}

MigrateScript ==
  <<{"connect s2 127.0.0.1:50052 1"},
    {"set_forwarding_pipeline_config p4info.txt a.json"},
    {"connect s1 127.0.0.1:50051 0"},
    {"set_forwarding_pipeline_config p4info.txt a.json"},
    {"install_func h.p4 c.p4 table[old_A]->conditional[old_B] 3",
     "install_func h.p4 c.p4 conditional[old_B]->table[old_A] 3"},
    MigrateCommands \cup {"uninstall_func 4"},
    AfterMigrateCommands>>

MigrateInit ==
  /\ connections = [n \in SwitchNames |-> NotConnected]
  /\ cur_connection = None
  /\ switches = [n \in SwitchNames |-> NewSwitch(NoPipe)]
  /\ fs = [q \in DOMAIN UserFiles \cup DOMAIN OneCharFiles |->
             IF q \in DOMAIN UserFiles THEN UserFiles[q] ELSE OneCharFiles[q]]
  /\ run = NoRun
  /\ outstanding = <<>>
  /\ sent = <<>>
  /\ last = Outcome("", NoErr, "start")
  /\ alive = TRUE
  /\ returned = 0
  /\ ncmd = 0
  /\ script = MigrateScript
  /\ entry \in {"exec_command_loop", "exec_script"}
  /\ BenchIdle
  /\ NamesIdle
  /\ ToolsIdle

MigrateSpec == MigrateInit /\ [][Next]_vars

GraphNodes(p) ==
  IF generate_graph(p).err = NoErr THEN Range(generate_graph(p).g.nodes) ELSE {}

\* the file named s, which an init_p4objects_new of a plan opens (the first
\* character of the path the planner wrote): the user has no such file, or
\* it holds the pipeline the plan is about to stage
StagedFiles(op, rt, mg) ==
  IF op = "install" THEN {<<>>, [q \in {"s"} |-> mg]}
  ELSE IF op = "migrate" /\ generate_migrate_json_file(rt).err = NoErr
    THEN {<<>>, [q \in {"s"} |-> generate_migrate_json_file(rt).file]}
  ELSE {<<>>}

\* uninstall_func plans only for a session whose staging flag is set; an
\* install or a migrate begins on a session that loaded nothing yet
BenchInit ==
  /\ bOp \in {"install", "uninstall", "migrate"}
  /\ bRt \in RuntimePipelines
  /\ bK \in Slots
  /\ IF bOp = "install"
       THEN /\ bMg \in MergedPipelines
            /\ bStart \in GraphNodes(bRt)
            /\ bEnd \in GraphNodes(bRt)
            /\ bDst = NoPipe
            /\ bK1 = 0
       ELSE IF bOp = "migrate"
       THEN /\ bMg = NoPipe
            /\ bDst \in RuntimePipelines
            /\ bStart \in GraphNodes(bDst)
            /\ bEnd \in GraphNodes(bDst)
            /\ bK1 \in Slots
       ELSE /\ bMg = NoPipe
            /\ bStart = ""
            /\ bEnd = ""
            /\ bDst = NoPipe
            /\ bK1 = 0
  /\ bPhase = "input"
  /\ bPlan = NoPlan(NoErr)
  /\ bIdx = 1
  /\ bSw = IF bOp = "migrate" THEN NewSwitch(bDst) ELSE NewSwitch(bRt)
  /\ bRound = FALSE
  /\ bFiles \in StagedFiles(bOp, bRt, bMg)
  /\ bConn = [already_init_p4objects_new |-> bOp = "uninstall", tflag |-> bOp = "uninstall"]
  /\ bOut = <<>>
  /\ bLast = NoErr
  /\ bApplied = 0
  /\ SessIdle
  /\ NamesIdle
  /\ ToolsIdle

\* install_func's planning step
BenchPlanInstall ==
  /\ bPhase = "input"
  /\ bOp = "install"
  /\ bPlan' = generate_install_func_commands(bRt, MergedPath, bMg, bStart, bEnd, bK)
  /\ bPhase' = IF bPlan'.err = NoErr THEN "installing" ELSE "install_failed"
  /\ UNCHANGED <<bOp, bRt, bDst, bK1, bMg, bStart, bEnd, bK, bIdx, bSw, bRound, bFiles, bConn, bOut, bLast,
                 bApplied, sessVars, nameVars, toolVars>>

\* uninstall_func's planning step on the request's runtime file
BenchPlanUninstall ==
  /\ bPhase = "input"
  /\ bOp = "uninstall"
  /\ \E ord \in DeleteOrders(bRt, bK) :
       bPlan' = generate_uninstall_func_commands(bRt, bK, ord)
  /\ bPhase' = IF bPlan'.err = NoErr THEN "uninstalling" ELSE "uninstall_failed"
  /\ UNCHANGED <<bOp, bRt, bDst, bK1, bMg, bStart, bEnd, bK, bIdx, bSw, bRound, bFiles, bConn, bOut, bLast,
                 bApplied, sessVars, nameVars, toolVars>>

\* uninstall_func typed right after the install_func: exec_command_loop read
\* on because the install ended with a Warning, the session's staging flag
\* is set, and the planner works on the latest pipeline the switch returned
BenchPlanRoundTrip ==
  /\ bOp = "install"
  /\ ~bRound
  /\ bPhase = "stopped"
  /\ exec_command_loop(bLast)
  /\ bConn.already_init_p4objects_new
  /\ \E ord \in DeleteOrders(bSw.pipe, bK) :
       bPlan' = generate_uninstall_func_commands(bSw.pipe, bK, ord)
  /\ bPhase' = IF bPlan'.err = NoErr THEN "uninstalling" ELSE "uninstall_failed"
  /\ bIdx' = 1
  /\ bRound' = TRUE
  /\ bLast' = NoErr
  /\ bApplied' = 0
  /\ UNCHANGED <<bOp, bRt, bDst, bK1, bMg, bStart, bEnd, bK, bSw, bFiles, bConn, bOut,
                 sessVars, nameVars, toolVars>>

\* migrate_func's planning step: the migrate file of the source's runtime
\* file, then the plan for the destination
BenchPlanMigrate ==
  /\ bPhase = "input"
  /\ bOp = "migrate"
  /\ LET mj == generate_migrate_json_file(bRt)
     IN  IF mj.err # NoErr
           THEN /\ bPlan' = NoPlan(mj.err)
                /\ bMg' = bMg
           ELSE /\ \E ord \in AddOrders(mj.file, bK) : \E walk \in AddOrders(mj.file, bK) :
                     bPlan' = generate_migrate_func_commands(
                                "s1", MigratePath(ReturnedPath(1)), mj.file, bK,
                                "s2", bDst, bStart, bEnd, bK1, ord, walk)
                /\ bMg' = IF bPlan'.err = NoErr THEN mj.file ELSE bMg
  /\ bPhase' = IF bPlan'.err = NoErr THEN "migrating" ELSE "migrate_failed"
  /\ UNCHANGED <<bOp, bRt, bDst, bK1, bStart, bEnd, bK, bIdx, bSw, bRound, bFiles, bConn, bOut, bLast,
                 bApplied, sessVars, nameVars, toolVars>>

\* the connection the loop over the plan works on, as _exec_one_command
\* reads it: a pipeline has been set, the flags are those of bConn
BenchConnections ==
  [n \in {"sw"} |->
     [connected |-> TRUE,
      latest_config_json_path |-> "latest.json",
      program_graph_manager |-> ProgramGraphManager,
      already_init_p4objects_new |-> bConn.already_init_p4objects_new,
      tflag |-> bConn.tflag]]

\* the mount_point_number checks of the install_func, uninstall_func and
\* migrate_func branches: no loop runs for a number outside [0, 128)
SlotsPassCli ==
  /\ 0 <= bK /\ bK < 128
  /\ bPhase = "migrating" => (0 <= bK1 /\ bK1 < 128)

\* the phase after the last command of the plan returned
PlanDone(phase) ==
  IF phase = "installing" THEN "installed"
  ELSE IF phase = "migrating" THEN "migrated"
  ELSE "uninstalled"

\* the loop of _install_func / _uninstall_func / _migrate_func hands its
\* next command to _exec_one_command: a connect of a migrate plan changes the
\* active connection; any other command is parsed and checked, and either
\* raises (the loop is left) or is handed to client_stub.Write
BenchIssue ==
  /\ bPhase \in {"installing", "uninstalling", "migrating"}
  /\ SlotsPassCli
  /\ bOut = <<>>
  /\ bIdx <= Len(bPlan.cmds)
  /\ LET cmd == bPlan.cmds[bIdx]
         err == IssueErr(cmd, "sw", BenchConnections, bFiles)
     IN  IF CommandKind(cmd) = "connect"
           THEN /\ bIdx' = bIdx + 1
                /\ bPhase' = IF bIdx < Len(bPlan.cmds) THEN bPhase ELSE PlanDone(bPhase)
                /\ UNCHANGED <<bOut, bLast>>
         ELSE IF err # NoErr
           THEN /\ bPhase' = "stopped"
                /\ bLast' = err
                /\ UNCHANGED <<bOut, bIdx>>
         ELSE /\ bOut' = <<cmd>>
              /\ UNCHANGED <<bPhase, bLast, bIdx>>
  /\ UNCHANGED <<bOp, bRt, bDst, bK1, bMg, bStart, bEnd, bK, bPlan, bSw, bRound, bFiles,
                 bConn, bApplied, sessVars, nameVars, toolVars>>

\* the switch answers the request, and _exec_one_command goes on from
\* client_stub.Write to its end: the transport sets its flag, the response
\* is read, stored as the latest pipeline JSON and its graph is built
BenchRespond ==
  /\ bOut # <<>>
  /\ \E response \in Responses :
       LET cmd    == bOut[1]
           parsed == RuntimeReconfigCommandParser(cmd)
           init   == parsed.action = "init_p4objects_new"
           r      == SwitchApply(bSw, RuntimeReconfigRequest(parsed),
                                 RequestFile(parsed, bFiles))
           graph  == generate_graph(r.sw.pipe)
       IN  IF r.err # NoErr \/ response = "rpc_error"
             THEN /\ bPhase' = "stopped"
                  /\ bLast' = "RpcError"
                  /\ UNCHANGED <<bSw, bConn, bIdx, bApplied>>
           ELSE IF response \in {"none", "not_str"}
             THEN /\ bPhase' = "stopped"
                  /\ bLast' = IF response = "none" THEN "AttributeError" ELSE ReconfigError
                  /\ bSw' = r.sw
                  /\ bApplied' = bApplied + 1
                  /\ bConn' = [bConn EXCEPT !.tflag = @ \/ init]
                  /\ UNCHANGED bIdx
           ELSE IF graph.err # NoErr
             THEN /\ bPhase' = "stopped"
                  /\ bLast' = graph.err
                  /\ bSw' = r.sw
                  /\ bApplied' = bApplied + 1
                  /\ bConn' = [bConn EXCEPT !.tflag = @ \/ init]
                  /\ UNCHANGED bIdx
           ELSE /\ bSw' = r.sw
                /\ bApplied' = bApplied + 1
                /\ bConn' = [already_init_p4objects_new |->
                               bConn.already_init_p4objects_new \/ init,
                             tflag |-> bConn.tflag \/ init]
                /\ bIdx' = bIdx + 1
                /\ bPhase' = IF bIdx < Len(bPlan.cmds) THEN bPhase ELSE PlanDone(bPhase)
                /\ UNCHANGED bLast
  /\ bOut' = <<>>
  /\ UNCHANGED <<bOp, bRt, bDst, bK1, bMg, bStart, bEnd, bK, bPlan, bRound, bFiles,
                 sessVars, nameVars, toolVars>>

BenchNext ==
  \/ BenchPlanInstall
  \/ BenchPlanUninstall
  \/ BenchPlanRoundTrip
  \/ BenchPlanMigrate
  \/ BenchIssue
  \/ BenchRespond

PlanSpec == BenchInit /\ [][BenchNext]_vars

(***************************************************************************)
(* The name bench: a flex name is shown to the user                        *)
(* (flex_name_to_human_readable_name), typed back                          *)
(* (human_readable_name_to_flex_name) and shown again                      *)
(***************************************************************************)
\* mount slots whose branch names are converted: 0..MaxNameSlot
MaxNameSlot == 3

\* the "name" fields of tables and conditionals
NodeNames == {"A", "B", "C", "N", "P", "Q", "X", "Y", "ipv4_lpm", "node_2"}

\* the flex names of a graph: root, sink, mount branches, and a tagged
\* table or conditional
FlexNames ==
  {"old_r", "old_s"}
  \cup {MountBranch(k) : k \in 0..MaxNameSlot}
  \cup {prefix \o kind \o n : prefix \in {"old_", "new_"}, kind \in {"t", "c"}, n \in NodeNames}

NameInit ==
  /\ nFlex \in FlexNames
  /\ nHuman = NoName
  /\ nBack = NoName
  /\ nAgain = NoName
  /\ nPhase = "flex"
  /\ BenchIdle
  /\ SessIdle
  /\ ToolsIdle

\* flex_name_to_human_readable_name(nFlex)
NameToHuman ==
  /\ nPhase = "flex"
  /\ nHuman' = flex_name_to_human_readable_name(nFlex)
  /\ nPhase' = IF nHuman'.err = NoErr THEN "human" ELSE "raised"
  /\ UNCHANGED <<nFlex, nBack, nAgain, benchVars, sessVars, toolVars>>

\* human_readable_name_to_flex_name of the name just shown
NameToFlex ==
  /\ nPhase = "human"
  /\ nBack' = human_readable_name_to_flex_name(nHuman.name)
  /\ nPhase' = IF nBack'.err = NoErr THEN "back" ELSE "raised"
  /\ UNCHANGED <<nFlex, nHuman, nAgain, benchVars, sessVars, toolVars>>

\* flex_name_to_human_readable_name of the name typed back
NameToHumanAgain ==
  /\ nPhase = "back"
  /\ nAgain' = flex_name_to_human_readable_name(nBack.name)
  /\ nPhase' = IF nAgain'.err = NoErr THEN "again" ELSE "raised"
  /\ UNCHANGED <<nFlex, nHuman, nBack, benchVars, sessVars, toolVars>>

NameNext ==
  \/ NameToHuman
  \/ NameToFlex
  \/ NameToHumanAgain

NameSpec == NameInit /\ [][NameNext]_vars

(***************************************************************************)
(* The tool bench: RuntimeReconfigCommandParser on a command line,         *)
(* generate_graph and the three taggers on a pipeline file                 *)
(***************************************************************************)
\* command lines of up to MaxTokens tokens
MaxTokens == 7

\* first tokens: the five actions and a word that is none
ActionWords == valid_actions \cup {"remove"}

\* second tokens: every target of some action and words that are none
TargetWords ==
  valid_action_targets_for_insert \cup valid_action_targets_for_change
  \cup valid_action_targets_for_delete \cup {"ingress", "on"}

RECURSIVE MoreTokens(_)
MoreTokens(n) == IF n = 0 THEN "" ELSE " x" \o MoreTokens(n - 1)

ParserCommands ==
  {""} \cup ActionWords
  \cup {a \o " " \o t \o MoreTokens(n) :
          a \in ActionWords, t \in TargetWords, n \in 0..(MaxTokens - 2)}

\* a name no table and no conditional of a pipeline has
Missing == "Z"

\* a pipeline with one successor replaced by null or by a missing name
Variants(p) ==
  {p}
  \cup {[p EXCEPT !.init_table = v] : v \in {None, Missing}}
  \cup {[p EXCEPT !.tables[i].base_default_next = v] :
          i \in 1..Len(p.tables), v \in {None, Missing}}
  \cup UNION {{[p EXCEPT !.tables[i].next_tables[j].next = v] :
                 j \in 1..Len(p.tables[i].next_tables), v \in {None, Missing}} :
              i \in 1..Len(p.tables)}
  \cup {[p EXCEPT !.conditionals[i].true_next = v] :
          i \in 1..Len(p.conditionals), v \in {None, Missing}}
  \cup {[p EXCEPT !.conditionals[i].false_next = v] :
          i \in 1..Len(p.conditionals), v \in {None, Missing}}

\* the pipeline files handed to the builder and the taggers: tagged and
\* untagged, with and without action_calls
PipelineFiles ==
  LET tagged == UNION {Variants(p) : p \in RuntimePipelines \cup MergedPipelines}
      files  == tagged \cup {Untagged(p) : p \in tagged}
  IN  files \cup {[p EXCEPT !.action_calls = TRUE] : p \in files}

\* the path of the file handed to the builder or tagger
ToolPath == ReturnedPath(1)

ToolInit ==
  /\ tOp \in {"parse", "generate_graph", "update_init_forwarding_pipeline_json_file",
              "update_merged_json_file", "generate_migrate_json_file"}
  /\ IF tOp = "parse"
       THEN tCmd \in ParserCommands /\ tPipe = NoPipe
       ELSE tCmd = "" /\ tPipe \in PipelineFiles
  /\ tOut = NoOut
  /\ tDone = FALSE
  /\ tFiles = IF tOp = "parse" THEN <<>> ELSE [q \in {ToolPath} |-> tPipe]
  /\ BenchIdle
  /\ SessIdle
  /\ NamesIdle

\* RuntimeReconfigCommandParser(tCmd)
ToolParse ==
  /\ ~tDone
  /\ tOp = "parse"
  /\ tOut' = RuntimeReconfigCommandParser(tCmd)
  /\ tDone' = TRUE
  /\ UNCHANGED <<tOp, tCmd, tPipe, tFiles, benchVars, sessVars, nameVars>>

\* generate_graph on the file
ToolGraph ==
  /\ ~tDone
  /\ tOp = "generate_graph"
  /\ tOut' = generate_graph(tPipe)
  /\ tDone' = TRUE
  /\ UNCHANGED <<tOp, tCmd, tPipe, tFiles, benchVars, sessVars, nameVars>>

\* update_init_forwarding_pipeline_json_file on the file: the file holds
\* what the call left in it
ToolTagInit ==
  /\ ~tDone
  /\ tOp = "update_init_forwarding_pipeline_json_file"
  /\ tOut' = update_init_forwarding_pipeline_json_file(tPipe)
  /\ tFiles' = WriteFile(tFiles, ToolPath, tOut'.file)
  /\ tDone' = TRUE
  /\ UNCHANGED <<tOp, tCmd, tPipe, benchVars, sessVars, nameVars>>

\* update_merged_json_file on the file: the file holds what the call left
\* in it
ToolTagMerged ==
  /\ ~tDone
  /\ tOp = "update_merged_json_file"
  /\ tOut' = update_merged_json_file(tPipe)
  /\ tFiles' = WriteFile(tFiles, ToolPath, tOut'.file)
  /\ tDone' = TRUE
  /\ UNCHANGED <<tOp, tCmd, tPipe, benchVars, sessVars, nameVars>>

\* generate_migrate_json_file on the file: the migrate file is written
\* next to it unless the call raised
ToolTagMigrate ==
  /\ ~tDone
  /\ tOp = "generate_migrate_json_file"
  /\ tOut' = generate_migrate_json_file(tPipe)
  /\ tFiles' = IF tOut'.err = NoErr
                 THEN WriteFile(tFiles, MigratePath(ToolPath), tOut'.file)
                 ELSE tFiles
  /\ tDone' = TRUE
  /\ UNCHANGED <<tOp, tCmd, tPipe, benchVars, sessVars, nameVars>>

ToolNext ==
  \/ ToolParse
  \/ ToolGraph
  \/ ToolTagInit
  \/ ToolTagMerged
  \/ ToolTagMigrate

ToolSpec == ToolInit /\ [][ToolNext]_vars

(***************************************************************************)
(* Properties of the planners (specification PlanSpec)                     *)
(***************************************************************************)
\* the plan in bPlan is the install plan of the request
InstallPlanned ==
  /\ bOp = "install"
  /\ ~bRound
  /\ bPhase \in {"installing", "installed", "stopped"}

\* the plan in bPlan is an uninstall plan and none of it has been applied:
\* the switch still holds the pipeline the plan was made from
UninstallPlanned == bPhase = "uninstalling" /\ bIdx = 1

PlanToks == [i \in 1..Len(bPlan.cmds) |-> Split(bPlan.cmds[i])]

\* how many primitives of the plan satisfy P
CountCmds(P(_)) == Cardinality({i \in 1..Len(bPlan.cmds) : P(bPlan.cmds[i])})

\* the names the specification puts on the wire
SpecKind(f) == IF IsFlx(f) THEN "flex" ELSE KindOf(f)

SpecTarget(f) == IF f = "old_s" THEN "null" ELSE WireName(f)

SameGraph(g1, g2) ==
  /\ Range(g1.nodes) = Range(g2.nodes)
  /\ Range(g1.edges) = Range(g2.edges)
  /\ Len(g1.edges) = Len(g2.edges)

BodyVertices(mg) == {n \in Range(mg.nodes) : n # "old_r" /\ n # "old_s"}

BodyEdges(mg) == {e \in Range(mg.edges) : e.u # "old_r"}

\* C5: an install on an edge of the runtime graph, with a slot in [0, 128),
\* followed at once by the uninstall of the same slot goes through and
\* leaves the switch with the graph the request started from
C5_RoundTripRestoresGraph ==
  (/\ bOp = "install"
   /\ HasAdj(generate_graph(bRt).g, bStart, bEnd)
   /\ 0 <= bK /\ bK < 128
   /\ bRound
   /\ bPhase \in {"stopped", "uninstall_failed", "uninstalled"})
  => /\ bPhase = "uninstalled"
     /\ SameGraph(generate_graph(bSw.pipe).g, generate_graph(bRt).g)

\* C5: the function of Scenario A was installed on old_tA -> old_cB up to the
\* refused trigger on 3; the uninstall that follows is left at its first
\* command, trigger off 3, and table X is still in the pipeline
C5_UninstallNeverStarts ==
  /\ bOp = "install"
  /\ bRt = PlainAB
  /\ bMg = MergedX
  /\ bStart = "old_tA"
  /\ bEnd = "old_cB"
  /\ bK = 3
  /\ bRound
  /\ bPhase = "stopped"
  /\ bLast = ReconfigWarning
  /\ bPlan.cmds[bIdx] = "trigger off 3"
  /\ NameInUse(bSw.pipe, "X")
  /\ ~SameGraph(generate_graph(bSw.pipe).g, generate_graph(bRt).g)

\* C6: every primitive a planner emitted is accepted by
\* RuntimeReconfigCommandParser
C6_PlannerOutputParses ==
  (bPhase # "input" /\ bPlan.err = NoErr)
  => \A i \in 1..Len(bPlan.cmds) :
       RuntimeReconfigCommandParser(bPlan.cmds[i]).err = NoErr

\* C6: the install plan of Scenario A ends with "trigger on 3", which the
\* parser refuses
C6_TriggerRefused ==
  /\ InstallPlanned
  /\ bPlan.cmds[Len(bPlan.cmds)] = "trigger on 3"
  /\ RuntimeReconfigCommandParser("trigger on 3").err = ReconfigError

\* the primitives the specification's install algorithm lists, group by
\* group, with the names the specification puts on the wire
SpecInserts(mg) ==
  {"insert " \o SpecKind(n) \o " ingress " \o WireName(n) : n \in BodyVertices(mg)}

SpecInternalChanges(mg) ==
  {"change " \o SpecKind(e.u) \o " ingress " \o WireName(e.u) \o " " \o e.type
     \o " " \o WireName(e.v) : e \in {x \in BodyEdges(mg) : x.v # "old_s"}}

SpecExitChanges(mg, end_point) ==
  {"change " \o SpecKind(e.u) \o " ingress " \o WireName(e.u) \o " " \o e.type
     \o " " \o SpecTarget(end_point) : e \in {x \in BodyEdges(mg) : x.v = "old_s"}}

SpecRedirect(rg, start_point, end_point, flex) ==
  IF start_point = "old_r" THEN {"change init ingress " \o flex}
  ELSE {"change " \o SpecKind(start_point) \o " ingress " \o WireName(start_point)
          \o " " \o ty \o " " \o flex : ty \in Range(EdgeTypes(rg, start_point, end_point))}

SpecEntry(mg) == (CHOOSE e \in Range(mg.edges) : e.u = "old_r").v

\* the primitives at positions a+1 .. a+n of the plan are exactly those of S
GroupAt(a, n, S) ==
  /\ Cardinality(S) = n
  /\ a + n <= Len(bPlan.cmds)
  /\ {bPlan.cmds[i] : i \in (a + 1)..(a + n)} = S

\* C7: an install plan is, in this order and with nothing else: the
\* init_p4objects_new of the merged file, the insert of the mount branch,
\* the inserts of the body vertices, the changes of the internal edges, the
\* changes of the exits, change flex false_next to end_point, change flex
\* true_next to the entry, the redirect, trigger on k
C7_InstallPlanShape ==
  InstallPlanned =>
    LET rg   == generate_graph(bRt).g
        mg   == generate_graph(bMg).g
        flex == MountBranch(bK)
        nIns == Cardinality(SpecInserts(mg))
        nInt == Cardinality(SpecInternalChanges(mg))
        nExt == Cardinality(SpecExitChanges(mg, bEnd))
        nRed == Cardinality(SpecRedirect(rg, bStart, bEnd, flex))
        a    == 2 + nIns + nInt + nExt
    IN  /\ Len(bPlan.cmds) = a + 2 + nRed + 1
        /\ bPlan.cmds[1] = "init_p4objects_new " \o MergedPath
        /\ bPlan.cmds[2] = "insert flex ingress " \o flex \o " null null"
        /\ GroupAt(2, nIns, SpecInserts(mg))
        /\ GroupAt(2 + nIns, nInt, SpecInternalChanges(mg))
        /\ GroupAt(2 + nIns + nInt, nExt, SpecExitChanges(mg, bEnd))
        /\ bPlan.cmds[a + 1] = "change flex ingress " \o flex \o " false_next "
                               \o SpecTarget(bEnd)
        /\ bPlan.cmds[a + 2] = "change flex ingress " \o flex \o " true_next "
                               \o WireName(SpecEntry(mg))
        /\ GroupAt(a + 2, nRed, SpecRedirect(rg, bStart, bEnd, flex))
        /\ bPlan.cmds[a + 2 + nRed + 1] = "trigger on " \o IntToStr(bK)

\* C7: a table is planned in front of the slot-3 mount branch; the plan's
\* change flex false_next names "flx_lex_func_mount_point_number_$3$"
C7_EndPointMisnamed ==
  /\ InstallPlanned
  /\ bRt = MountedAB
  /\ bMg = MergedX
  /\ bStart = "old_tA"
  /\ bEnd = Flx3
  /\ bK = 4
  /\ bPlan.cmds[5] = "change flex ingress " \o Flx4
                     \o " false_next flx_lex_func_mount_point_number_$3$"

\* C8: for every edge u -> v with label L of the merged graph, u not the
\* root, the install plan holds exactly one change of (u, L), and it leads
\* to v, or to end_point (null for the sink) when v is the sink
C8_OneChangePerBodyEdge ==
  InstallPlanned =>
    \A e \in BodyEdges(generate_graph(bMg).g) :
      LET ofEdge == {i \in 1..Len(bPlan.cmds) :
                       /\ Len(PlanToks[i]) = 6
                       /\ SubSeq(PlanToks[i], 1, 5)
                            = <<"change", SpecKind(e.u), "ingress", WireName(e.u), e.type>>}
      IN  /\ Cardinality(ofEdge) = 1
          /\ \A i \in ofEdge :
               PlanToks[i][6] = IF e.v = "old_s" THEN SpecTarget(bEnd) ELSE WireName(e.v)

\* C8: two tables with parallel edges are planned in front of the slot-3
\* mount branch; the exit "miss" of new_tX is sent to a name that is not the
\* end_point's
C8_ExitMisnamed ==
  /\ InstallPlanned
  /\ bRt = MountedAB
  /\ bMg = MergedXY
  /\ bStart = "old_tA"
  /\ bEnd = Flx3
  /\ bK = 4
  /\ \E i \in 1..Len(bPlan.cmds) :
       bPlan.cmds[i] = "change tabl ingress new_X miss flx_lex_func_mount_point_number_$3$"

\* C9: the redirect of an install plan is one "change init ingress <mount
\* branch>" and no table or conditional change toward the mount branch when
\* start_point is the root; otherwise one change of start_point per label of
\* an edge start_point -> end_point, toward the mount branch, and no change
\* of any other label of start_point
C9_Redirect ==
  InstallPlanned =>
    LET rg     == generate_graph(bRt).g
        flex   == MountBranch(bK)
        toFlex == {i \in 1..Len(bPlan.cmds) :
                     /\ PlanToks[i][1] = "change"
                     /\ PlanToks[i][2] \in {"tabl", "cond"}
                     /\ PlanToks[i][Len(PlanToks[i])] = flex}
        inits  == {i \in 1..Len(bPlan.cmds) : SubSeq(PlanToks[i], 1, 2) = <<"change", "init">>}
        ofStart(ty) == {i \in 1..Len(bPlan.cmds) :
                          /\ Len(PlanToks[i]) = 6
                          /\ SubSeq(PlanToks[i], 1, 5)
                               = <<"change", SpecKind(bStart), "ingress",
                                   WireName(bStart), ty>>}
    IN  IF bStart = "old_r"
          THEN /\ Cardinality(inits) = 1
               /\ \A i \in inits : bPlan.cmds[i] = "change init ingress " \o flex
               /\ toFlex = {}
          ELSE /\ inits = {}
               /\ \A e \in {x \in Range(rg.edges) : x.u = bStart} :
                    IF e.v = bEnd
                      THEN /\ Cardinality(ofStart(e.type)) = 1
                           /\ \A i \in ofStart(e.type) : PlanToks[i][6] = flex
                      ELSE ofStart(e.type) = {}
               /\ Cardinality(toFlex)
                    = Cardinality({x \in Range(rg.edges) : x.u = bStart /\ x.v = bEnd})

\* C9: the plan for mounting between old_tA and old_tB, which are joined by
\* the labels base_default_next and hit while miss leads elsewhere, has been
\* applied up to its last command, the trigger on that the client refuses
C9_ParallelRedirected ==
  /\ bRt = ParallelABC
  /\ bStart = "old_tA"
  /\ bEnd = "old_tB"
  /\ ~bRound
  /\ bPhase = "stopped"
  /\ bLast = ReconfigWarning
  /\ bIdx = Len(bPlan.cmds)
  /\ Len(RedirectCommands(generate_graph(bRt).g, bStart, bEnd, MountBranch(bK))) = 2

\* what the specification's uninstall algorithm lists for the mount branch
\* flex of graph g
SpecDeletes(g, flex) ==
  {"delete " \o SpecKind(d) \o " ingress " \o WireName(d) :
     d \in SimplePathNodes(g, BranchNext(g, flex, "true_next"),
                           BranchNext(g, flex, "false_next"))
           \ {BranchNext(g, flex, "false_next")}}

SpecParentChanges(g, flex) ==
  {"change " \o SpecKind(e.u) \o " ingress " \o WireName(e.u) \o " " \o e.type
     \o " " \o SpecTarget(BranchNext(g, flex, "false_next")) :
     e \in {x \in Range(g.edges) : x.v = flex}}

\* C10: the uninstall plan of a mount branch with a true_next and a
\* false_next edge is: trigger off k, then the deletes of the vertices on
\* the simple paths from T to F except F, then one change per incoming edge
\* of the mount branch re-pointing it, under its label, to F (null for the
\* sink), then delete flex of the mount branch
C10_UninstallPlanShape ==
  UninstallPlanned =>
    LET g    == generate_graph(bSw.pipe).g
        flex == MountBranch(bK)
        nDel == Cardinality(SpecDeletes(g, flex))
        nPar == Cardinality(SpecParentChanges(g, flex))
    IN  /\ Len(bPlan.cmds) = 1 + nDel + nPar + 1
        /\ bPlan.cmds[1] = "trigger off " \o IntToStr(bK)
        /\ GroupAt(1, nDel, SpecDeletes(g, flex))
        /\ GroupAt(1 + nDel, nPar, SpecParentChanges(g, flex))
        /\ bPlan.cmds[Len(bPlan.cmds)] = "delete flex ingress " \o flex

\* C10: slot 4 is planned for removal while its false_next is the slot-3
\* mount branch; the parent old_tA is re-pointed to a name that is not F's
C10_FalseNextMisnamed ==
  /\ UninstallPlanned
  /\ bOp = "uninstall"
  /\ bRt = MountedTwice
  /\ bK = 4
  /\ bPlan.cmds[3] = "change tabl ingress old_A base_default_next flx_lex_func_mount_point_number_$3$"

(***************************************************************************)
(* Properties of the session (specification Spec)                          *)
(***************************************************************************)
ReconfigPrimitives == {"insert", "change", "delete", "trigger"}

\* READY: connected, a pipeline set, the staging area loaded by a successful
\* init_p4objects_new
Ready(sw) ==
  /\ sw # None
  /\ connections[sw].connected
  /\ connections[sw].latest_config_json_path # None
  /\ connections[sw].already_init_p4objects_new

\* this step is a call of _exec_one_command (by the loop at its prompt or by
\* the loop of a plan); last' tells which command it was given
CommandStep == outstanding = <<>> /\ (ncmd' = ncmd + 1 \/ run.kind # "none")

\* C1: an insert, change, delete or trigger primitive issued while the
\* active switch is not READY ends with the warning of an unmet
\* precondition: no request is written, and the connections (latest
\* pipeline JSON, graphs, staging flags), the files and the switches are
\* unchanged.
C1_NotReadyRejected ==
  [][(/\ CommandStep
      /\ CommandKind(last'.cmd) = "runtime_reconfig"
      /\ Split(last'.cmd)[1] \in ReconfigPrimitives
      /\ ~Ready(cur_connection))
     => (/\ last'.err = ReconfigWarning
         /\ sent' = sent
         /\ outstanding' = <<>>
         /\ connections' = connections
         /\ switches' = switches
         /\ fs' = fs)]_vars

\* a well-formed primitive was refused on a connection that has a pipeline
\* but no staging area yet
C1_RefusedBeforeInit ==
  /\ last.step = "read"
  /\ last.err = ReconfigWarning
  /\ CommandKind(last.cmd) = "runtime_reconfig"
  /\ Split(last.cmd)[1] \in ReconfigPrimitives
  /\ parse_err(last.cmd) = NoErr
  /\ cur_connection # None
  /\ connections[cur_connection].latest_config_json_path # None
  /\ ~connections[cur_connection].already_init_p4objects_new
  /\ sent = <<>>

\* C2: set_forwarding_pipeline_config on a connection that already has a
\* pipeline is refused with a warning; nothing is uploaded and the
\* connection, the files and the switch stay as they are.
C2_SecondPipelineRefused ==
  [][(/\ CommandStep
      /\ CommandKind(last'.cmd) = "set_forwarding_pipeline_config"
      /\ cur_connection # None
      /\ connections[cur_connection].latest_config_json_path # None)
     => (/\ last'.err = ReconfigWarning
         /\ connections' = connections
         /\ switches' = switches
         /\ fs' = fs)]_vars

\* a connection whose initial graph is the one of a.json and whose latest
\* pipeline and current graph are the ones of b.json: two pipelines were set
C2_SecondPipelineAccepted ==
  /\ cur_connection # None
  /\ connections[cur_connection].latest_config_json_path = "b.json"
  /\ connections[cur_connection].program_graph_manager.init_graph
       = generate_graph(fs["a.json"]).g
  /\ connections[cur_connection].program_graph_manager.cur_graph
       = generate_graph(fs["b.json"]).g
  /\ switches[cur_connection].pipe = fs["b.json"]
  /\ returned = 0

\* the requests written since the plan began
SentByPlan == SubSeq(sent, run.base + 1, Len(sent))

\* a command of a plan that is written to the switch: every command but the
\* connect commands that bracket a migrate plan
IsPrimitive(cmd) == CommandKind(cmd) # "connect"

\* the primitives among the first n commands of the running plan
PlanPrimitives(n) == SelectSeq(SubSeq(run.cmds, 1, n), IsPrimitive)

\* C3 (state part): while a plan runs, the requests written since it began
\* are its first primitives in the emitted order, all to the active switch,
\* and at most one request is unanswered
C3_InOrder ==
  /\ Len(outstanding) <= 1
  /\ run.kind # "none" =>
       /\ SentByPlan
            = [j \in 1..Len(PlanPrimitives(run.idx - 1 + Len(outstanding))) |->
                 [sw |-> cur_connection,
                  cmd |-> PlanPrimitives(run.idx - 1 + Len(outstanding))[j]]]
       /\ outstanding # <<>> => IsPrimitive(run.cmds[run.idx])

\* C3 (step part): when the next primitive of a plan is written after i
\* earlier ones, the responses to those have been stored: the latest pipeline
\* JSON is the i-th file returned since the plan began, it holds the pipeline
\* the switch has now, and the current graph is the graph of that file
C3_AfterResponse ==
  (run.kind # "none" /\ PlanPrimitives(run.idx - 1) # <<>> /\ sent' # sent)
  => (/\ outstanding = <<>>
      /\ returned = run.stored + Len(PlanPrimitives(run.idx - 1))
      /\ connections[cur_connection].latest_config_json_path = ReturnedPath(returned)
      /\ fs[ReturnedPath(returned)] = switches[cur_connection].pipe
      /\ connections[cur_connection].program_graph_manager.cur_graph
           = generate_graph(fs[ReturnedPath(returned)]).g
      /\ sent' = Append(sent, [sw |-> cur_connection, cmd |-> run.cmds[run.idx]]))

\* C3: a plan's primitives are written in the emitted order, one at a time,
\* primitive i+1 only after the response to primitive i has become the
\* latest pipeline JSON and the current graph has been rebuilt from it.
C3_OneAtATime == [](C3_InOrder) /\ [][C3_AfterResponse]_vars

\* the third primitive of a plan is on its way, two responses stored
C3_ThirdDispatched ==
  /\ run.kind # "none"
  /\ run.idx = 3
  /\ Len(outstanding) = 1
  /\ outstanding[1].cmd = run.cmds[3]
  /\ returned = run.stored + 2

\* C4: when a primitive of a plan fails, the plan's loop ends: no later
\* primitive and no compensating primitive is written; after a rejection
\* before the request is written (parser, precondition) or a transport
\* error the connections, the files and the switches are the ones the last
\* successful primitive left.
C4_StopAtFirstFailure ==
  [][(run.kind # "none" /\ last'.err # NoErr)
     => (/\ run'.kind = "none"
         /\ sent' = sent
         /\ outstanding' = <<>>
         /\ (last'.step = "plan" \/ last'.err = "RpcError")
              => (/\ connections' = connections
                  /\ cur_connection' = cur_connection
                  /\ switches' = switches
                  /\ fs' = fs))]_vars

\* a plan ended at a primitive that was refused before it was written,
\* after earlier primitives of the plan had been written and answered
C4_PlanCutShort ==
  /\ last.step = "plan"
  /\ last.err # NoErr
  /\ run.kind = "none"
  /\ outstanding = <<>>
  /\ Len(sent) >= 2
  /\ sent[Len(sent)].cmd # last.cmd
  /\ returned = Len(sent)

(***************************************************************************)
(* Further properties of the planners (specification PlanSpec)             *)
(***************************************************************************)
\* generate_uninstall_func_commands has been called on the pipeline the
\* switch holds, and nothing of its plan has been applied yet
UninstallAttempted == bPhase = "uninstall_failed" \/ UninstallPlanned

\* the mount branch of slot bK is in the graph g with a true_next and a
\* false_next successor
WellFormedBranch(g) ==
  /\ MountBranch(bK) \in Range(g.nodes)
  /\ Len(Nbrs(g, MountBranch(bK))) = 2
  /\ BranchNext(g, MountBranch(bK), "true_next") # None
  /\ BranchNext(g, MountBranch(bK), "false_next") # None

\* C11: when old_r is a parent of the mount branch, the uninstall planner
\* returns a plan with `change init ingress <F>` (and no parent change to a
\* table or conditional) if old_r is the only parent, and fails if there is
\* another parent.
C11_RootParent ==
  LET graph == generate_graph(bSw.pipe)
      flex  == MountBranch(bK)
      ps    == InEdges(graph.g, flex)
      F     == BranchNext(graph.g, flex, "false_next")
  IN  (/\ UninstallAttempted
       /\ graph.err = NoErr
       /\ WellFormedBranch(graph.g)
       /\ \E i \in 1..Len(ps) : ps[i].u = "old_r")
      => IF \A i \in 1..Len(ps) : ps[i].u = "old_r"
           THEN /\ bPlan.err = NoErr
                /\ ("change init ingress " \o SpecTarget(F)) \in Range(bPlan.cmds)
                /\ \A i \in 1..Len(bPlan.cmds) :
                     ~(PlanToks[i][1] = "change" /\ PlanToks[i][2] \in {"tabl", "cond"})
           ELSE bPlan.err # NoErr

\* the uninstall of a function mounted at the root ended in
\* UnboundLocalError: old_r is the only parent of the branch
C11_RootParentUnbound ==
  /\ bOp = "uninstall"
  /\ bRt = MountedRoot
  /\ bK = 3
  /\ InEdges(generate_graph(bRt).g, Flx3) = <<Edge("old_r", Flx3, "base_default_next")>>
  /\ bPhase = "uninstall_failed"
  /\ bPlan.err = "UnboundLocalError"

(***************************************************************************)
(* Properties of the migrate planner (specification PlanSpec)              *)
(***************************************************************************)
\* the plan in bPlan is the migrate plan of the request; bMg holds the
\* migrate file of the source
MigratePlanned ==
  /\ bOp = "migrate"
  /\ bPhase \in {"migrating", "migrated", "stopped"}

\* C12: for every edge u -> F with label L of the source snapshot, u in the
\* splice body of source slot k0 and F the false_next target of the source
\* mount branch, the migrate plan holds the change of (u, L) that leads to
\* the destination's end_point (null when that is the sink)
C12_ExitsToEndPoint ==
  MigratePlanned =>
    LET g0   == generate_graph(bMg).g
        flex == MountBranch(bK)
        F    == BranchNext(g0, flex, "false_next")
        body == PathNodes(g0, flex) \ {F}
    IN  \A e \in Range(g0.edges) :
          (e.u \in body /\ e.v = F) =>
            ("change " \o SpecKind(e.u) \o " ingress " \o WireName(e.u) \o " " \o e.type
             \o " " \o SpecTarget(bEnd)) \in Range(bPlan.cmds)

\* C12: table P of slot 3 on the source is migrated into slot 4 between A
\* and B of the destination; the plan was applied up to its trigger on 4,
\* which the client refuses, it holds no change of P's exit, and P's
\* base_default_next on the destination is unset
C12_ExitLeftOpen ==
  /\ bOp = "migrate"
  /\ bPhase = "stopped"
  /\ bLast = ReconfigWarning
  /\ bPlan.cmds[bIdx] = "trigger on 4"
  /\ bRt = MountedAB
  /\ bK = 3
  /\ bDst = PlainAB
  /\ bStart = "old_tA"
  /\ bEnd = "old_cB"
  /\ bK1 = 4
  /\ Edge("new_tP", "new_cB", "base_default_next") \in Range(generate_graph(bMg).g.edges)
  /\ "change tabl ingress new_P base_default_next old_B" \notin Range(bPlan.cmds)
  /\ \A i \in 1..Len(bPlan.cmds) : PlanToks[i][1] = "change" => PlanToks[i][4] # "new_P"
  /\ \E i \in 1..Len(bSw.pipe.tables) :
       /\ bSw.pipe.tables[i].name = "P"
       /\ bSw.pipe.tables[i].base_default_next = None

(***************************************************************************)
(* Properties of migrate_func in a session (specification MigrateSpec)     *)
(***************************************************************************)
\* this step is the planning of a migrate_func: the loop over a migrate
\* plan begins; last' holds the command the user typed
MigrateBegins == run.kind = "none" /\ run'.kind = "migrate_func"

\* the destination of the migrate plan that runs
RunDst == Split(run.cmds[1])[2]

\* C13 (plan): the plan of `migrate_func k0 <dst> <mount point> k1` typed on
\* <src> begins with connect <dst> and init_p4objects_new <the file that
\* holds the migrate snapshot of the latest pipeline of src>, ends with
\* trigger on k1 and connect <src>, and has no other connect
C13_PlanShape ==
  MigrateBegins =>
    LET typed == Split(last'.cmd)
        cmds  == run'.cmds
        n     == Len(cmds)
        src   == connections[cur_connection].latest_config_json_path
    IN  /\ n >= 4
        /\ cmds[1] = "connect " \o typed[3]
        /\ Split(cmds[2])[1] = "init_p4objects_new"
        /\ Len(Split(cmds[2])) = 2
        /\ Split(cmds[2])[2] \in DOMAIN fs'
        /\ fs'[Split(cmds[2])[2]] = generate_migrate_json_file(fs[src]).file
        /\ cmds[n - 1] = "trigger on " \o typed[5]
        /\ cmds[n] = "connect " \o cur_connection
        /\ \A i \in 2..(n - 1) : Split(cmds[i])[1] # "connect"
        /\ run'.sw = cur_connection
        /\ run'.idx = 1

\* C13 (dispatch): while a migrate plan runs, the requests written since it
\* began are its commands after connect <dst>, in order, all to <dst>
C13_ToDestination ==
  run.kind = "migrate_func" =>
    /\ Len(SentByPlan) <= Len(run.cmds) - 2
    /\ \A j \in 1..Len(SentByPlan) :
         SentByPlan[j] = [sw |-> RunDst, cmd |-> run.cmds[j + 1]]

\* C13 (connect): a connect <name> of a migrate plan that does not fail
\* makes <name> the active connection
C13_ConnectSteps ==
  (/\ run.kind = "migrate_func"
   /\ outstanding = <<>>
   /\ CommandKind(run.cmds[run.idx]) = "connect"
   /\ last'.step = "plan"
   /\ last'.err = NoErr)
  => cur_connection' = Split(run.cmds[run.idx])[2]

\* C13 (end): the loop over a migrate plan is left either by the failure of
\* a primitive that was written to the destination, or with every primitive
\* between the two connect commands written to the destination and the
\* switch the migrate_func was typed on active again
C13_Ends ==
  (run.kind = "migrate_func" /\ run'.kind = "none") =>
    \/ last'.step = "response" /\ last'.err # NoErr
    \/ /\ Len(sent') - run.base = Len(run.cmds) - 2
       /\ \A j \in (run.base + 1)..Len(sent') :
            sent'[j] = [sw |-> RunDst, cmd |-> run.cmds[j - run.base + 1]]
       /\ cur_connection' = run.sw

\* C13: a migrate plan begins with connect <dst>, init_p4objects_new <source
\* migrate JSON> and ends with trigger on k1, connect <src>; when it is
\* executed every primitive between the two connects is written to the
\* destination; a migrate whose primitives all succeed ends with the source
\* as the active connection.
C13_MigrateBrackets ==
  [](C13_ToDestination) /\ [][C13_PlanShape /\ C13_ConnectSteps /\ C13_Ends]_vars

\* the migrate_func typed on s1 toward s2 has ended: every primitive of its
\* plan before trigger on 4 was answered by s2, trigger on 4 was refused
\* before it was written, and connect s1 was not executed
C13_TriggerNotDispatched ==
  /\ run.kind = "none"
  /\ ncmd = 6
  /\ outstanding = <<>>
  /\ last.cmd = "trigger on 4"
  /\ last.err = ReconfigWarning
  /\ last.step = "plan"
  /\ cur_connection = "s2"
  /\ sent # <<>>
  /\ sent[Len(sent)].sw = "s2"
  /\ Split(sent[Len(sent)].cmd)[1] = "change"
  /\ \A j \in 1..Len(sent) : Split(sent[j].cmd)[1] # "trigger"

\* the switch a migrate_func was typed on, in a step of that migrate_func:
\* its planning or a step of the loop over its plan
MigrateSrc == IF MigrateBegins THEN cur_connection ELSE run.sw

\* C14: no step of a migrate_func writes a request to the source switch or
\* changes the source's session (latest pipeline JSON path and content,
\* initial graph, current graph, staging flags) or the source switch itself.
C14_SourceUntouched ==
  [][(MigrateBegins \/ run.kind = "migrate_func")
     => (/\ connections'[MigrateSrc] = connections[MigrateSrc]
         /\ switches'[MigrateSrc] = switches[MigrateSrc]
         /\ fs'[connections[MigrateSrc].latest_config_json_path]
              = fs[connections[MigrateSrc].latest_config_json_path]
         /\ \A j \in (Len(sent) + 1)..Len(sent') : sent'[j].sw # MigrateSrc)]_vars

\* a migrate_func typed on s1 names s1 itself as the other switch: the
\* plan's connect s1 left s1 active, its init_p4objects_new was written to
\* s1 and the answer replaced the latest pipeline JSON of s1
C14_SentToSource ==
  /\ run.kind = "migrate_func"
  /\ run.sw = "s1"
  /\ RunDst = "s1"
  /\ cur_connection = "s1"
  /\ Len(SentByPlan) >= 1
  /\ SentByPlan[1].sw = "s1"
  /\ Split(SentByPlan[1].cmd)[1] = "init_p4objects_new"
  /\ returned > run.stored
  /\ connections["s1"].latest_config_json_path = ReturnedPath(returned)

(***************************************************************************)
(* Preconditions of the planners (specification PlanSpec)                  *)
(***************************************************************************)
\* the planner of the request has been called
Planned == bPhase # "input"

\* the mount slots the request names
RequestSlots == IF bOp = "migrate" THEN {bK, bK1} ELSE {bK}

OutOfRange(k) == k < 0 \/ k >= 128

\* C15: the primitive validator rejects trigger on/off <slot> for a slot
\* outside [0, 128), and a planner called with a slot outside [0, 128)
\* raises P4RuntimeReconfigError and emits no primitive
C15_SlotRangeChecked ==
  /\ \A sl \in {"-1", "128"} :
       /\ parse_err("trigger on " \o sl) = ReconfigError
       /\ parse_err("trigger off " \o sl) = ReconfigError
  /\ (Planned /\ ~bRound /\ \E k \in RequestSlots : OutOfRange(k))
       => (bPlan.err = ReconfigError /\ bPlan.cmds = <<>>)

\* C15: the install planner was called with slot 128 and returned a plan
\* around the mount branch of slot 128
C15_Slot128Planned ==
  /\ bOp = "install"
  /\ bK = 128
  /\ bPhase = "installing"
  /\ bPlan.err = NoErr
  /\ "insert flex ingress flx_flex_func_mount_point_number_$128$ null null"
       \in Range(bPlan.cmds)
  /\ "trigger on 128" \in Range(bPlan.cmds)

\* C16: the install planner called with a start_point and an end_point
\* between which the runtime graph has no edge raises
\* P4RuntimeReconfigError and emits no primitive
C16_NoEdgeRejected ==
  (/\ bOp = "install"
   /\ Planned
   /\ ~bRound
   /\ generate_graph(bRt).err = NoErr
   /\ generate_graph(bMg).err = NoErr
   /\ EdgeTypes(generate_graph(bRt).g, bStart, bEnd) = <<>>)
  => (bPlan.err = ReconfigError /\ bPlan.cmds = <<>>)

\* C16: an install from old_cB to old_tA of PlainAB, which has the edge
\* old_tA -> old_cB only, ended in a KeyError
C16_NoEdgeKeyError ==
  /\ bOp = "install"
  /\ bRt = PlainAB
  /\ bStart = "old_cB"
  /\ bEnd = "old_tA"
  /\ bK = 3
  /\ EdgeTypes(generate_graph(bRt).g, bStart, bEnd) = <<>>
  /\ bPhase = "install_failed"
  /\ bPlan = NoPlan("KeyError")

\* the slot of the request on the switch the plan is for is in use: its
\* mount branch is a vertex of that switch's runtime graph
SlotInUse ==
  \/ /\ bOp = "install"
     /\ ~bRound
     /\ MountBranch(bK) \in GraphNodes(bRt)
  \/ /\ bOp = "migrate"
     /\ MountBranch(bK1) \in GraphNodes(bDst)

\* C17: an install, or a migrate on its destination side, with a slot that
\* is already in use on the target switch is rejected: the planner raises
\* and emits no primitive
C17_UsedSlotRejected ==
  (Planned /\ SlotInUse) => (bPlan.err # NoErr /\ bPlan.cmds = <<>>)

\* C17: slot 3 is in use between A and B of MountedAB; an install for slot
\* 3 in front of that mount branch was planned, and its plan inserts the
\* mount branch of slot 3 again
C17_SlotReused ==
  /\ bOp = "install"
  /\ bRt = MountedAB
  /\ bK = 3
  /\ Flx3 \in GraphNodes(bRt)
  /\ bStart = "old_tA"
  /\ bEnd = Flx3
  /\ bPhase = "installing"
  /\ bPlan.err = NoErr
  /\ bPlan.cmds[2] = "insert flex ingress " \o Flx3 \o " null null"

(***************************************************************************)
(* Failing planners in a session (specification MigrateSpec)               *)
(***************************************************************************)
\* this step reads a command of the user
ReadStep == ncmd' = ncmd + 1

\* the install planner is called for cmd and raises: the checks of the
\* branch, the compilation, the tagger and the mount point are passed
InstallPlannerRaises(cmd) ==
  LET pc     == Split(cmd)
      merged == merge_and_compile(fs, pc[2], pc[3], OUTPUT_FOLDER, "compiled")
      tagged == update_merged_json_file(merged.files[merged.path])
      files  == WriteFile(merged.files, merged.path, tagged.file)
      mp     == SplitMountPoint(pc[4])
      start  == human_readable_name_to_flex_name(mp.start)
      end    == human_readable_name_to_flex_name(mp.end)
  IN  /\ CommandKind(cmd) = "install_func"
      /\ install_func_err(pc, cur_connection, connections, fs) = NoErr
      /\ merged.err = NoErr /\ tagged.err = NoErr
      /\ mp.err = NoErr /\ start.err = NoErr /\ end.err = NoErr
      /\ install_err(files[connections[cur_connection].latest_config_json_path],
                     tagged.file, start.name, end.name, ParseInt(pc[5]).val) # NoErr

\* the uninstall planner is called for cmd and raises
UninstallPlannerRaises(cmd) ==
  LET pc == Split(cmd)
      rt == fs[connections[cur_connection].latest_config_json_path]
      k  == ParseInt(pc[2]).val
  IN  /\ CommandKind(cmd) = "uninstall_func"
      /\ uninstall_func_err(pc, cur_connection, connections) = NoErr
      /\ \E ord \in DeleteOrders(rt, k) : uninstall_err(rt, k, ord) # NoErr

\* the migrate planner is called for cmd and raises
MigratePlannerRaises(cmd) ==
  LET pc    == Split(cmd)
      mj    == generate_migrate_json_file(
                 fs[connections[cur_connection].latest_config_json_path])
      mp    == SplitMountPoint(pc[4])
      start == human_readable_name_to_flex_name(mp.start)
      end   == human_readable_name_to_flex_name(mp.end)
      k0    == ParseInt(pc[2]).val
  IN  /\ CommandKind(cmd) = "migrate_func"
      /\ migrate_func_err(pc, cur_connection, connections) = NoErr
      /\ mj.err = NoErr
      /\ mp.err = NoErr /\ start.err = NoErr /\ end.err = NoErr
      /\ \E ord \in AddOrders(mj.file, k0) :
           migrate_err(mj.file, k0, fs[connections[pc[3]].latest_config_json_path],
                       start.name, end.name, ord) # NoErr

PlannerRaises(cmd) ==
  InstallPlannerRaises(cmd) \/ UninstallPlannerRaises(cmd) \/ MigratePlannerRaises(cmd)

\* C18: when the planner of an install_func, uninstall_func or migrate_func
\* raises, no loop over a plan begins and no request is written; the active
\* connection, every connection's session state and every switch are as
\* they were before the command.
C18_FailedPlanLeavesNoTrace ==
  [][(ReadStep /\ PlannerRaises(last'.cmd))
     => (/\ last'.err # NoErr
         /\ run'.kind = "none"
         /\ sent' = sent
         /\ outstanding' = outstanding
         /\ cur_connection' = cur_connection
         /\ connections' = connections
         /\ switches' = switches)]_vars

\* a migrate_func of slot 4, which is not mounted on s1, was typed on s1
\* after the install into slot 3: the planner raised KeyError, s1 is still
\* the active connection and nothing was written since the install
C18_MigratePlannerFailed ==
  /\ last.step = "read"
  /\ last.cmd = "migrate_func 4 s2 table[old_A]->conditional[old_B] 4"
  /\ last.err = "KeyError"
  /\ cur_connection = "s1"
  /\ run.kind = "none"
  /\ returned = Len(sent)
  /\ \A j \in 1..Len(sent) : sent[j].sw = "s1"

(***************************************************************************)
(* The graphs of a session (specification Spec)                            *)
(***************************************************************************)
Manager(n) == connections[n].program_graph_manager

\* this step replaces the session stored under the name n by a new one
NewSession(n) ==
  /\ ReadStep
  /\ CommandKind(last'.cmd) = "connect_new"
  /\ Split(last'.cmd)[2] = n
  /\ last'.err = NoErr

\* C19 (state part): the two graphs of a session are unset together
C19_SetTogether ==
  \A n \in SwitchNames : (Manager(n).init_graph = NoGraph) <=> (Manager(n).cur_graph = NoGraph)

\* C19 (step part): within one session, a step that changes a graph is a
\* successful build: the current graph becomes the graph of the pipeline
\* just built (the one the switch now holds), the initial graph becomes that
\* graph too if it was unset and otherwise stays; a new session starts with
\* both graphs unset
C19_BuildStep ==
  \A n \in SwitchNames :
    IF NewSession(n)
      THEN connections'[n].program_graph_manager = ProgramGraphManager
      ELSE /\ Manager(n).init_graph # NoGraph
                => connections'[n].program_graph_manager.init_graph = Manager(n).init_graph
           /\ connections'[n].program_graph_manager # Manager(n)
                => /\ generate_graph(switches'[n].pipe).err = NoErr
                   /\ connections'[n].program_graph_manager.cur_graph
                        = generate_graph(switches'[n].pipe).g
                   /\ Manager(n).init_graph = NoGraph
                        => connections'[n].program_graph_manager.init_graph
                             = generate_graph(switches'[n].pipe).g

\* C19: the initial graph of a session is the graph of its first
\* successful build and never changes afterwards; the current graph is the
\* graph of its most recent successful build.
C19_InitGraphFixed == [](C19_SetTogether) /\ [][C19_BuildStep]_vars

\* a session whose first build was the pipeline of a.json and whose current
\* graph, built from a response of the switch, has one vertex more
C19_GraphGrew ==
  /\ cur_connection # None
  /\ returned >= 1
  /\ Manager(cur_connection).init_graph = generate_graph(fs["a.json"]).g
  /\ Manager(cur_connection).cur_graph = generate_graph(fs[ReturnedPath(returned)]).g
  /\ Len(Manager(cur_connection).cur_graph.nodes)
       = Len(Manager(cur_connection).init_graph.nodes) + 1

(***************************************************************************)
(* The name conversions (specification NameSpec)                           *)
(***************************************************************************)
\* C20: for every flex name f (old_r, old_s, a flx_ name, old_/new_ + t/c +
\* name) both conversions succeed, the flex name of the human-readable name
\* of f is f, and the human-readable name of that flex name is the
\* human-readable name of f
C20_RoundTrip ==
  /\ nPhase # "raised"
  /\ nPhase \in {"back", "again"} => nBack.name = nFlex
  /\ nPhase = "again" => nAgain.name = nHuman.name

\* C20: old_r was shown as " [root] ", and typing that back raised
C20_RootNotReadBack ==
  /\ nFlex = "old_r"
  /\ nHuman = [err |-> NoErr, name |-> " [root] "]
  /\ nPhase = "raised"
  /\ nBack.err = ReconfigError

(***************************************************************************)
(* Names on the wire (specification PlanSpec)                              *)
(***************************************************************************)
\* the tokens of a primitive that name a node: the 4th of an insert, change
\* or delete, the 6th of a change, the 5th and 6th of an insert flex
NodeOperands(toks) ==
  IF toks[1] \notin {"insert", "change", "delete"} THEN {}
  ELSE {toks[i] : i \in (IF toks[1] = "change" THEN {4, 6} ELSE {4, 5, 6})
                         \cap (1..Len(toks))}

\* the flex-names a plan of the request can refer to: the vertices of the
\* request's graphs and the mount branches of its slots
RequestFlexNames ==
  GraphNodes(bRt) \cup GraphNodes(bMg) \cup GraphNodes(bDst)
  \cup {MountBranch(bK), MountBranch(bK1)}

\* C21: every node operand of an emitted primitive is null or the wire name
\* of a vertex of the request: the flex-name without its kind letter for an
\* old_ or new_ vertex, the flex-name itself for a flx_ vertex
C21_WireNames ==
  (bPhase # "input" /\ bPlan.err = NoErr)
  => \A i \in 1..Len(bPlan.cmds) :
       NodeOperands(PlanToks[i])
         \subseteq ({WireName(f) : f \in RequestFlexNames} \cup {"null"})

\* C21: an emitted primitive names a mount branch by its flex-name with the
\* fifth character removed
C21_MountBranchMangled ==
  /\ bPhase # "input"
  /\ bPlan.err = NoErr
  /\ \E i \in 1..Len(bPlan.cmds) : \E k \in Slots :
       /\ eliminate_type_letter_in_name(MountBranch(k)) \in NodeOperands(PlanToks[i])
       /\ MountBranch(k) \in RequestFlexNames

(***************************************************************************)
(* Properties of the parser, the graph builder and the taggers             *)
(* (specification ToolSpec)                                                *)
(***************************************************************************)
\* the parser was called on tCmd
Parsed == tOp = "parse" /\ tDone

\* the arity table: the number of arguments after ACTION and TARGET, -1 for
\* a target that is not valid for the action
ArityTable(action, target) ==
  IF action = "insert" THEN
    (IF target \in {"tabl", "cond"} THEN 2
     ELSE IF target = "flex" THEN 4
     ELSE IF target = "register_array" THEN 3 ELSE -1)
  ELSE IF action = "change" THEN
    (IF target \in {"tabl", "cond", "flex"} THEN 4
     ELSE IF target \in {"register_array_size", "register_array_bitwidth", "init"} THEN 2
     ELSE -1)
  ELSE IF action = "delete" THEN
    (IF target \in {"tabl", "cond", "flex"} THEN 2
     ELSE IF target = "register_array" THEN 1 ELSE -1)
  ELSE -1

\* a token sequence the arity table admits: trigger and init_p4objects_new
\* with one argument, insert / change / delete with a valid target and the
\* table's number of arguments
WellFormed(toks) ==
  /\ Len(toks) >= 1
  /\ toks[1] \in valid_actions
  /\ IF toks[1] \in {"trigger", "init_p4objects_new"}
       THEN Len(toks) = 2
       ELSE /\ Len(toks) >= 2
            /\ ArityTable(toks[1], toks[2]) >= 0
            /\ Len(toks) - 2 = ArityTable(toks[1], toks[2])

\* C22: the parser accepts a token sequence exactly when the arity table
\* admits it, and every other sequence ends with P4RuntimeReconfigError
C22_AcceptsByArityTable ==
  Parsed =>
    IF WellFormed(Split(tCmd))
      THEN tOut.err = NoErr
      ELSE tOut.err = ReconfigError

\* C22: "change init" followed by no argument at all has been accepted
C22_ChangeInitAnyArity ==
  /\ Parsed
  /\ tCmd = "change init"
  /\ tOut.err = NoErr
  /\ tOut.action_arguments = <<>>

\* generate_graph was called on a file whose tables and conditionals all
\* carry a flex_name and whose ingress has no action_calls
GraphBuilt ==
  /\ tOp = "generate_graph"
  /\ tDone
  /\ ~tPipe.action_calls
  /\ \A i \in 1..Len(tPipe.tables) : tPipe.tables[i].flex_name # NoFlex
  /\ \A i \in 1..Len(tPipe.conditionals) : tPipe.conditionals[i].flex_name # NoFlex

\* the labelled successors of a table or conditional as the file lists them
Successors(p) ==
  UNION {{[u |-> p.tables[i].flex_name, label |-> "base_default_next",
           next |-> p.tables[i].base_default_next]}
         \cup {[u |-> p.tables[i].flex_name, label |-> p.tables[i].next_tables[j].label,
                next |-> p.tables[i].next_tables[j].next] :
                 j \in 1..Len(p.tables[i].next_tables)} : i \in 1..Len(p.tables)}
  \cup UNION {{[u |-> p.conditionals[i].flex_name, label |-> "true_next",
                next |-> p.conditionals[i].true_next],
               [u |-> p.conditionals[i].flex_name, label |-> "false_next",
                next |-> p.conditionals[i].false_next]} : i \in 1..Len(p.conditionals)}

\* C23: the build of a pipeline without action_calls returns a graph; the
\* root has exactly one outgoing edge, labelled base_default_next, to the
\* init table's vertex when the pipeline has that table; every null
\* successor of a table or conditional is an edge to old_s under the
\* successor's label
C23_BuildNeverCrashes ==
  GraphBuilt =>
    /\ tOut.err = NoErr
    /\ LET fromRoot == SelectSeq(tOut.g.edges, LAMBDA e : e.u = "old_r")
       IN  /\ Len(fromRoot) = 1
           /\ fromRoot[1].type = "base_default_next"
           /\ InName2Id(tPipe, tPipe.init_table)
                => fromRoot[1].v = Name2Id(tPipe, tPipe.init_table)
    /\ \A s \in Successors(tPipe) :
         s.next = None => Edge(s.u, "old_s", s.label) \in Range(tOut.g.edges)

\* C23: the build of a pipeline whose init_table names no table of the file
\* ended in KeyError
C23_MissingInitTableCrashes ==
  /\ GraphBuilt
  /\ tPipe.init_table = Missing
  /\ tOut.err = "KeyError"

\* C24: when successors of tables or conditionals name nodes absent from the
\* file, the build still returns a graph, and the graph has the edge of every
\* successor that resolves and no edge for a successor that dangles
C24_OnlyDanglingEdgeOmitted ==
  (GraphBuilt /\ InName2Id(tPipe, tPipe.init_table)) =>
    /\ tOut.err = NoErr
    /\ \A s \in Successors(tPipe) :
         IF InName2Id(tPipe, s.next)
           THEN Edge(s.u, Name2Id(tPipe, s.next), s.label) \in Range(tOut.g.edges)
           ELSE \A e \in Range(tOut.g.edges) : ~(e.u = s.u /\ e.type = s.label)

\* C24: table A of ParallelABC has a dangling base_default_next; the graph
\* was built and old_tA has no outgoing edge, although its hit and miss
\* entries name the table B and the conditional C of the file
C24_NextTablesDropped ==
  /\ GraphBuilt
  /\ tPipe = [ParallelABC EXCEPT !.tables[1].base_default_next = Missing]
  /\ tOut.err = NoErr
  /\ \A e \in Range(tOut.g.edges) : e.u # "old_tA"

\* the builder or a tagger was called on a file whose ingress has action_calls
ActionCallsHandled == tOp # "parse" /\ tDone /\ tPipe.action_calls

\* C25: generate_graph, update_init_forwarding_pipeline_json_file,
\* update_merged_json_file and generate_migrate_json_file all end with
\* P4RuntimeReconfigError on a pipeline whose ingress contains action_calls,
\* and the taggers leave the file as it was
C25_ActionCallsRejected ==
  ActionCallsHandled =>
    /\ tOut.err = ReconfigError
    /\ tOp # "generate_graph" => tOut.file = tPipe

\* C25: update_merged_json_file has refused a file with action_calls
C25_MergedTagRefused ==
  /\ ActionCallsHandled
  /\ tOp = "update_merged_json_file"
  /\ tOut.err = ReconfigError
  /\ tOut.file = tPipe

\* generate_migrate_json_file was called on a file without action_calls
MigrateTagDone ==
  /\ tOp = "generate_migrate_json_file"
  /\ tDone
  /\ ~tPipe.action_calls

\* the flex-names of the tables, then of the conditionals, of a file
FlexNamesOf(p) ==
  [i \in 1..Len(p.tables) |-> p.tables[i].flex_name]
  \o [i \in 1..Len(p.conditionals) |-> p.conditionals[i].flex_name]

\* what tag-migrate makes of a flex-name: old_ becomes new_ in front of the
\* same kind letter and suffix, flx_ names stay
MigrateName(f) ==
  IF PySlice(f, 0, 4) = "old_" THEN "new_" \o PyFrom(f, 4) ELSE f

\* C26: generate_migrate_json_file fails when a table or conditional has no
\* flex_name; otherwise the migrate file has, object by object, the flex-name
\* with old_ replaced by new_ (kind letter and suffix kept) and every flx_
\* flex-name unchanged
C26_MigrateTag ==
  MigrateTagDone =>
    IF NoFlex \in Range(FlexNamesOf(tPipe))
      THEN tOut.err = ReconfigError /\ tOut.file = tPipe
      ELSE /\ tOut.err = NoErr
           /\ Len(tOut.file.tables) = Len(tPipe.tables)
           /\ Len(tOut.file.conditionals) = Len(tPipe.conditionals)
           /\ FlexNamesOf(tOut.file)
                = [i \in 1..Len(FlexNamesOf(tPipe)) |-> MigrateName(FlexNamesOf(tPipe)[i])]

\* C26: the migrate file of MountedAB was made: old_tA and old_cB became
\* new_tA and new_cB, the slot-3 mount branch kept its name
C26_MountBranchKept ==
  /\ MigrateTagDone
  /\ tPipe = MountedAB
  /\ tOut.err = NoErr
  /\ FlexNamesOf(tOut.file) = <<"new_tA", "new_tP", "new_cB", Flx3>>

(***************************************************************************)
(* Further properties of the session (specification Spec)                  *)
(***************************************************************************)
\* C27: a command that ends with P4RuntimeReconfigWarning leaves every
\* connection and the active connection as they were when the command was
\* read (nothing of a plan has been stored, the active connection is the
\* one the plan began on) and the loop reads on; a command that ends with
\* any other exception ends the loop (commands run by exec_command_loop)
C27_WarningKeepsSession ==
  [][entry = "exec_command_loop"
     => /\ last'.err = ReconfigWarning
             => /\ connections' = connections
                /\ cur_connection' = cur_connection
                /\ alive'
                /\ run.kind # "none" => (cur_connection = run.sw /\ returned = run.stored)
        /\ last'.err \notin {NoErr, ReconfigWarning} => ~alive']_vars

\* C27: install_func ended with the warning raised for the last command of
\* its plan, trigger on, after the responses to the earlier primitives had
\* replaced the session's latest pipeline JSON and graph; the loop reads on
C27_WarningAfterChanges ==
  /\ entry = "exec_command_loop"
  /\ alive
  /\ run.kind = "none"
  /\ last.step = "plan"
  /\ last.err = ReconfigWarning
  /\ Split(last.cmd)[1] = "trigger"
  /\ returned > 0
  /\ connections[cur_connection].latest_config_json_path = ReturnedPath(returned)

(***************************************************************************)
(* Order of an install plan, delete set of an uninstall plan               *)
(* (specification PlanSpec)                                                *)
(***************************************************************************)
\* the first n tokens of the plan's commands a+1 .. a+n
PlanHeads(a, len, n) ==
  [i \in 1..len |-> SubSeq(PlanToks[a + i], 1, Min(n, Len(PlanToks[a + i])))]

\* the tables, then the conditionals, of a pipeline as the file declares them
Declared(p) ==
  [i \in 1..Len(p.tables) |-> p.tables[i].flex_name]
  \o [i \in 1..Len(p.conditionals) |-> p.conditionals[i].flex_name]

\* the edges of a graph that leave a body vertex, in the order generate_graph
\* added them: toward a body vertex, and toward the sink
InternalEdges(mg) == SelectSeq(mg.edges, LAMBDA e : e.u # "old_r" /\ e.v # "old_s")

ExitEdges(mg) == SelectSeq(mg.edges, LAMBDA e : e.u # "old_r" /\ e.v = "old_s")

\* C28: the install plan lists its inserts in the declaration order of the
\* merged pipeline, its internal changes in the order the edges were added
\* to the merged graph, and its exit changes in that order too
C28_InstallOrder ==
  InstallPlanned =>
    LET mp   == bMg
        mg   == generate_graph(bMg).g
        nIns == Len(Declared(mp))
        int  == InternalEdges(mg)
        ext  == ExitEdges(mg)
    IN  /\ Len(bPlan.cmds) >= 2 + nIns + Len(int) + Len(ext)
        /\ PlanHeads(2, nIns, 4)
             = [i \in 1..nIns |->
                  <<"insert", KindOf(Declared(mp)[i]), "ingress", WireName(Declared(mp)[i])>>]
        /\ PlanHeads(2 + nIns, Len(int), 6)
             = [i \in 1..Len(int) |->
                  <<"change", KindOf(int[i].u), "ingress", WireName(int[i].u),
                    int[i].type, WireName(int[i].v)>>]
        /\ PlanHeads(2 + nIns + Len(int), Len(ext), 5)
             = [i \in 1..Len(ext) |->
                  <<"change", KindOf(ext[i].u), "ingress", WireName(ext[i].u), ext[i].type>>]

\* C28: in the plan for MergedXYZ the change of X under miss, whose edge was
\* added third, comes before the change under hit, whose edge was added
\* second
C28_ParallelEdgesFirst ==
  /\ InstallPlanned
  /\ bMg = MergedXYZ
  /\ SubSeq(bPlan.cmds, 6, 8)
       = <<"change tabl ingress new_X base_default_next new_Y",
           "change tabl ingress new_X miss new_Y",
           "change tabl ingress new_X hit new_Z">>

\* the delete set the uninstall planner computes for slot bK on the pipeline
\* the switch holds
DeleteSet == NodesToBeDeleted(generate_graph(bSw.pipe).g, MountBranch(bK))

\* the install plan of the request has been applied up to its last command,
\* the trigger on that the client refuses
Installed ==
  /\ bOp = "install"
  /\ ~bRound
  /\ bPhase = "stopped"
  /\ bLast = ReconfigWarning
  /\ bIdx = Len(bPlan.cmds)

\* C29: once an install plan has been applied, the delete set of the
\* uninstall planner for the same slot is the set of body vertices the plan
\* inserted: no old_ vertex, not the false_next target and not the mount
\* branch; the deletes of the uninstall plan made next are those of exactly
\* these vertices
C29_DeleteSetIsBody ==
  /\ Installed =>
       /\ DeleteSet = BodyVertices(generate_graph(bMg).g)
       /\ \A d \in DeleteSet : PySlice(d, 0, 4) = "new_"
       /\ BranchNext(generate_graph(bSw.pipe).g, MountBranch(bK), "false_next") \notin DeleteSet
       /\ MountBranch(bK) \notin DeleteSet
  /\ (bRound /\ UninstallPlanned) =>
       {bPlan.cmds[i] : i \in {j \in 1..Len(bPlan.cmds) :
                                 /\ PlanToks[j][1] = "delete"
                                 /\ PlanToks[j][2] # "flex"}}
         = {"delete " \o KindOf(n) \o " ingress " \o WireName(n) :
              n \in BodyVertices(generate_graph(bMg).g)}

\* C29: MergedXYZ was installed in slot 3 of PlainAB between old_tA and
\* old_cB, and the uninstall plan made from the switch's pipeline deletes
\* X, Y and Z
C29_ThreeDeleted ==
  /\ bRound
  /\ UninstallPlanned
  /\ bRt = PlainAB
  /\ bMg = MergedXYZ
  /\ bK = 3
  /\ DeleteSet = {"new_tX", "new_tY", "new_tZ"}
  /\ Len(bPlan.cmds) = 6

(***************************************************************************)
(* The staging flag of a session (specification Spec)                      *)
(***************************************************************************)
\* the staging flag of the session stored under the name n, and the flag of
\* its transport
StagingFlag(n) == connections[n].already_init_p4objects_new

TransportFlag(n) == connections[n].tflag

\* C30 (step part): a new session has both flags unset; within a session a
\* flag that is set stays set, and a flag is set only by the step that
\* takes the response to an init_p4objects_new request written to that
\* session's switch, which the switch accepted; the session's flag only when
\* the call returned without an exception.  An init_p4objects_new given
\* while no pipeline is set ends with a warning and writes no request.
C30_FlagStep ==
  /\ \A n \in SwitchNames :
       IF NewSession(n)
         THEN ~connections'[n].already_init_p4objects_new /\ ~connections'[n].tflag
         ELSE /\ StagingFlag(n) => connections'[n].already_init_p4objects_new
              /\ TransportFlag(n) => connections'[n].tflag
              /\ (\/ ~StagingFlag(n) /\ connections'[n].already_init_p4objects_new
                  \/ ~TransportFlag(n) /\ connections'[n].tflag)
                   => /\ outstanding # <<>>
                      /\ outstanding[1] \in Range(sent)
                      /\ outstanding[1].sw = n
                      /\ Split(outstanding[1].cmd)[1] = "init_p4objects_new"
                      /\ outstanding' = <<>>
                      /\ switches'[n].staging # NoStaging
                      /\ last'.step = "response"
                      /\ connections'[n].already_init_p4objects_new => last'.err = NoErr
  /\ (/\ CommandStep
      /\ CommandKind(last'.cmd) = "runtime_reconfig"
      /\ Split(last'.cmd)[1] = "init_p4objects_new"
      /\ (cur_connection = None \/ connections[cur_connection].latest_config_json_path = None))
     => (/\ last'.err = ReconfigWarning
         /\ sent' = sent
         /\ outstanding' = <<>>
         /\ connections' = connections)

\* C30: the staging flag of a session is false when the session is created,
\* is set only by a successful init_p4objects_new sent to the session's
\* switch and is never unset; init_p4objects_new is refused, nothing being
\* sent, while the session has no pipeline.
C30_StagingFlag ==
  /\ \A n \in SwitchNames : ~StagingFlag(n) /\ ~TransportFlag(n)
  /\ [][C30_FlagStep]_vars

\* the response to an init_p4objects_new typed by the user has set the
\* staging flag of the active session, which has received nothing else
C30_FlagSet ==
  /\ cur_connection # None
  /\ StagingFlag(cur_connection)
  /\ last = Outcome("init_p4objects_new m.json", NoErr, "response")
  /\ Len(sent) = 1
  /\ sent[1] = [sw |-> cur_connection, cmd |-> "init_p4objects_new m.json"]

(***************************************************************************)
(* C31: the two staging flags of a session                                 *)
(***************************************************************************)
\* C31: in every state, and so after every command whether it succeeded or
\* failed, the staging flag of each session (SSwitchGRPCConnection's
\* already_init_p4objects_new) equals the staging flag of its transport
\* connection (SwitchConnection's already_init_p4objects_new), so that the
\* guard of the runtime-reconfig branch and the guard of RuntimeReconfig
\* agree on every primitive.
C31_FlagsEqual ==
  \A n \in SwitchNames :
    /\ StagingFlag(n) = TransportFlag(n)
    /\ \A action \in valid_actions :
         NeedsStaging(action, StagingFlag(n)) = NeedsStaging(action, TransportFlag(n))

\* an init_p4objects_new was written and accepted by the switch, the call
\* ended with an exception after client_stub.Write: the transport flag of
\* the active session is set, its session flag is not, and a later
\* primitive would pass the guard of RuntimeReconfig and fail the guard of
\* the runtime-reconfig branch
C31_FlagsDiffer ==
  /\ cur_connection # None
  /\ TransportFlag(cur_connection)
  /\ ~StagingFlag(cur_connection)
  /\ last.step = "response"
  /\ last.err = "AttributeError"
  /\ Split(last.cmd)[1] = "init_p4objects_new"
  /\ switches[cur_connection].staging # NoStaging
  /\ NeedsStaging("insert", StagingFlag(cur_connection))
  /\ ~NeedsStaging("insert", TransportFlag(cur_connection))

(***************************************************************************)
(* C32: an install plan changes nothing reachable before its redirect      *)
(***************************************************************************)
\* the vertices reachable from the vertices S
RECURSIVE ReachFrom(_, _)
ReachFrom(g, S) ==
  LET N == S \cup UNION {Succs(g, u) : u \in S}
  IN  IF N = S THEN S ELSE ReachFrom(g, N)

\* the part of g reachable from the root: vertices, labelled edges
Reachable(g) == ReachFrom(g, {"old_r"})

ReachableEdges(g) == SelectSeq(g.edges, LAMBDA e : e.u \in Reachable(g))

SameReachable(g1, g2) ==
  /\ Reachable(g1) = Reachable(g2)
  /\ Range(ReachableEdges(g1)) = Range(ReachableEdges(g2))
  /\ Len(ReachableEdges(g1)) = Len(ReachableEdges(g2))

\* the primitive at position i of the plan re-points the start point
IsRedirect(i) ==
  /\ PlanToks[i][1] = "change"
  /\ \/ PlanToks[i][2] = "init"
     \/ /\ Len(PlanToks[i]) >= 4
        /\ bStart # "old_r"
        /\ PlanToks[i][4] = eliminate_type_letter_in_name(bStart)

\* the position of the first redirect of the start point in the plan; past
\* the end of a plan that has none
FirstRedirect ==
  LET I == {i \in 1..Len(bPlan.cmds) : IsRedirect(i)}
  IN  IF I = {} THEN Len(bPlan.cmds) + 1 ELSE CHOOSE i \in I : \A j \in I : i <= j

SwitchGraph == generate_graph(bSw.pipe).g

\* C32: while the loop of _install_func gets an install plan applied by the
\* switch primitive by primitive (whether or not each answer gets back), as
\* long as every primitive applied so far precedes the redirect of the start
\* point, the vertices and labelled edges reachable from the root are those
\* of the graph before the install; and from the moment the redirect is next
\* to be applied, the mount branch has its false_next at end_point and its
\* true_next at the entry vertex of the body, and every edge of the body
\* that left the block leads to end_point.
C32_HiddenUntilRedirect ==
  InstallPlanned =>
    LET mg   == generate_graph(bMg).g
        flex == MountBranch(bK)
    IN  /\ generate_graph(bSw.pipe).err = NoErr
        /\ bApplied < FirstRedirect
             => SameReachable(SwitchGraph, generate_graph(bRt).g)
        /\ (bApplied + 1 >= FirstRedirect /\ FirstRedirect <= Len(bPlan.cmds))
             => /\ Edge(flex, bEnd, "false_next") \in Range(SwitchGraph.edges)
                /\ \E e \in Range(mg.edges) :
                     /\ e.u = "old_r"
                     /\ Edge(flex, e.v, "true_next") \in Range(SwitchGraph.edges)
                /\ \A e \in Range(mg.edges) :
                     (e.v = "old_s" /\ e.u # "old_r")
                       => /\ Edge(e.u, bEnd, e.type) \in Range(SwitchGraph.edges)
                          /\ bEnd # "old_s"
                               => Edge(e.u, "old_s", e.type) \notin Range(SwitchGraph.edges)

\* the redirect of table A of PlainAB has just been applied: the mount
\* branch of slot 3 and the two tables of the body, whose two exits lead
\* to B, are now reachable from the root
C32_RedirectApplied ==
  /\ InstallPlanned
  /\ bPhase = "installing"
  /\ bRt = PlainAB
  /\ bMg = MergedXY
  /\ bStart = "old_tA"
  /\ bEnd = "old_cB"
  /\ bIdx = FirstRedirect + 1
  /\ bApplied = FirstRedirect
  /\ {MountBranch(bK), "new_tX", "new_tY"} \subseteq Reachable(SwitchGraph)
  /\ Edge("new_tX", "old_cB", "miss") \in Range(SwitchGraph.edges)
  /\ Edge("new_tY", "old_cB", "base_default_next") \in Range(SwitchGraph.edges)
  /\ ~SameReachable(SwitchGraph, generate_graph(bRt).g)

(***************************************************************************)
(* C33: an uninstall plan deletes nothing that is still in use             *)
(***************************************************************************)
\* the plan being applied is an uninstall plan.  Every uninstall plan begins
\* with trigger off <k>, which the client refuses before it sends anything:
\* in these states the switch holds the pipeline the plan was made from.
UninstallRunning ==
  /\ bOp = "uninstall" \/ bRound
  /\ bPhase \in {"uninstalling", "uninstalled", "stopped"}

\* the names the node called n of pipeline p refers to as its successors,
\* the true_next of the conditional called skip left out
NextNames(p, n, skip) ==
  UNION {{p.tables[i].base_default_next}
         \cup {p.tables[i].next_tables[j].next : j \in 1..Len(p.tables[i].next_tables)} :
           i \in {i \in 1..Len(p.tables) : p.tables[i].name = n}}
  \cup UNION {{p.conditionals[i].false_next}
              \cup (IF n = skip THEN {} ELSE {p.conditionals[i].true_next}) :
                i \in {i \in 1..Len(p.conditionals) : p.conditionals[i].name = n}}

RECURSIVE NamesFrom(_, _, _)
NamesFrom(p, S, skip) ==
  LET N == S \cup UNION {NextNames(p, n, skip) : n \in S}
  IN  IF N = S THEN S ELSE NamesFrom(p, N, skip)

\* the names a packet can get to from init_table without taking the
\* true_next of the conditional called skip
InUse(p, skip) == NamesFrom(p, {p.init_table}, skip) \ {None}

\* the names of p that refer to the node called n
Parents(p, n) ==
  {p.tables[i].name : i \in {i \in 1..Len(p.tables) : n \in NextNames(p, p.tables[i].name, "")}}
  \cup {p.conditionals[i].name :
          i \in {i \in 1..Len(p.conditionals) : n \in NextNames(p, p.conditionals[i].name, "")}}

\* every reference to the node called n in p0 is, in p, a reference to f
Repointed(p0, p, n, f) ==
  /\ p0.init_table = n => p.init_table = f
  /\ \A i \in 1..Len(p0.tables) :
       LET t0 == p0.tables[i]
       IN  n \in NextNames(p0, t0.name, "") =>
             \E k \in 1..Len(p.tables) :
               LET t == p.tables[k]
               IN  /\ t.name = t0.name
                   /\ Len(t.next_tables) = Len(t0.next_tables)
                   /\ t0.base_default_next = n => t.base_default_next = f
                   /\ \A j \in 1..Len(t0.next_tables) :
                        t0.next_tables[j].next = n => t.next_tables[j].next = f
  /\ \A i \in 1..Len(p0.conditionals) :
       LET c0 == p0.conditionals[i]
       IN  (c0.name # n /\ n \in NextNames(p0, c0.name, "")) =>
             \E k \in 1..Len(p.conditionals) :
               LET c == p.conditionals[k]
               IN  /\ c.name = c0.name
                   /\ c0.true_next = n => c.true_next = f
                   /\ c0.false_next = n => c.false_next = f

\* C33: while the switch applies an uninstall plan for slot k primitive by
\* primitive, after each primitive every node a packet can get to from the
\* root without taking the true_next of the slot-k mount branch exists; and
\* once the mount branch is deleted nothing refers to it any more: each of
\* its parents in the pipeline the plan was made from refers to the branch's
\* false_next target instead.
C33_NothingInUseDeleted ==
  UninstallRunning =>
    LET flex == MountBranch(bK)
        p    == bSw.pipe
    IN  /\ \A n \in InUse(p, flex) : NameInUse(p, n)
        /\ ~NameInUse(p, flex) =>
             /\ p.init_table # flex
             /\ Parents(p, flex) = {}
             /\ ~bRound =>
                  /\ NameInUse(bRt, flex)
                  /\ \A i \in 1..Len(bRt.conditionals) :
                       bRt.conditionals[i].name = flex =>
                         Repointed(bRt, p, flex, bRt.conditionals[i].false_next)

(***************************************************************************)
(* C34: the current graph and the latest pipeline JSON of a session        *)
(***************************************************************************)
LatestJson(n) == connections[n].latest_config_json_path

\* C34: in every state, and so after every command whether it succeeded or
\* failed, the current graph of each session is the graph generate_graph
\* builds from the file the session's latest_config_json_path names, and the
\* graph is unset exactly when the path is: the path never names a pipeline
\* JSON whose graph was not built.
C34_GraphOfLatestJson ==
  \A n \in SwitchNames :
    /\ (LatestJson(n) = None) <=> (Manager(n).cur_graph = NoGraph)
    /\ LatestJson(n) # None =>
         /\ LatestJson(n) \in DOMAIN fs
         /\ generate_graph(fs[LatestJson(n)]).err = NoErr
         /\ Manager(n).cur_graph = generate_graph(fs[LatestJson(n)]).g

\* set_forwarding_pipeline_config with a pipeline JSON whose init_table
\* names no node ended with the KeyError of generate_graph: the session's
\* latest_config_json_path names that file, its graph is still unset
C34_PathAheadOfGraph ==
  /\ cur_connection # None
  /\ last = Outcome("set_forwarding_pipeline_config p4info.txt d.json", "KeyError", "read")
  /\ LatestJson(cur_connection) = "d.json"
  /\ Manager(cur_connection).cur_graph = NoGraph
  /\ generate_graph(fs["d.json"]).err = "KeyError"
  /\ switches[cur_connection].pipe = fs["d.json"]

(***************************************************************************)
(* C35: sessions are isolated                                              *)
(***************************************************************************)
\* this step belongs to a migrate_func: its planning, a step of the loop
\* over its plan or the response to one of its primitives
MigrateStep == MigrateBegins \/ run.kind = "migrate_func"

\* the session stored under the name n, the file its latest pipeline JSON
\* path names included
SessionState(n) ==
  [session |-> connections[n],
   json    |-> IF LatestJson(n) \in DOMAIN fs THEN fs[LatestJson(n)] ELSE NoPipe]

\* this step is `connect <name>` typed by the user
ConnectStep == ReadStep /\ CommandKind(last'.cmd) = "connect"

\* C35 (step part): a step other than a step of a migrate_func and other
\* than a `connect <name> <address> <id>` - a primitive, its response,
\* set_forwarding_pipeline_config, install_func, uninstall_func and the
\* steps of their plans - leaves the active connection as it is, writes
\* requests to the active switch only and changes no session but the active
\* one: every other session keeps its latest pipeline JSON (path and
\* content), its graphs and its staging flags, and every other switch its
\* pipeline.  `connect <name>` changes no session, no switch and no file:
\* for a known name the named session becomes the active one, for an
\* unknown name the command ends with a warning and the active connection
\* stays.
C35_IsolatedStep ==
  /\ (~MigrateStep /\ ~(\E n \in SwitchNames : NewSession(n)) /\ ~ConnectStep)
       => /\ cur_connection' = cur_connection
          /\ \A j \in (Len(sent) + 1)..Len(sent') : sent'[j].sw = cur_connection
          /\ \A n \in SwitchNames \ {cur_connection} :
               /\ connections'[n] = connections[n]
               /\ switches'[n] = switches[n]
               /\ LatestJson(n) \in DOMAIN fs => fs'[LatestJson(n)] = fs[LatestJson(n)]
  /\ ConnectStep
       => /\ connections' = connections
          /\ switches' = switches
          /\ fs' = fs
          /\ sent' = sent
          /\ IF Split(last'.cmd)[2] \in SwitchNames
                /\ connections[Split(last'.cmd)[2]].connected
               THEN cur_connection' = Split(last'.cmd)[2] /\ last'.err = NoErr
               ELSE cur_connection' = cur_connection /\ last'.err = ReconfigWarning

\* C35: sessions are isolated: what is executed while switch X is the active
\* connection changes the session of X only, and `connect <name>` changes
\* only which session is active.
C35_Isolated == [][C35_IsolatedStep]_vars

\* the pipeline of b.json was just set on s2 while the session of s1 still
\* has the pipeline of a.json and its graph
C35_TwoSessions ==
  /\ cur_connection = "s2"
  /\ last = Outcome("set_forwarding_pipeline_config p4info.txt b.json", NoErr, "read")
  /\ LatestJson("s2") = "b.json"
  /\ LatestJson("s1") = "a.json"
  /\ Manager("s1").cur_graph = generate_graph(fs["a.json"]).g
  /\ Manager("s2").cur_graph = generate_graph(fs["b.json"]).g
  /\ Manager("s1").cur_graph # Manager("s2").cur_graph

(***************************************************************************)
(* C36: the active connection after a migrate_func                         *)
(***************************************************************************)
\* C36 (step part): the step that ends the loop of a migrate_func, by the
\* end of the plan or by an exception of one of its commands, leaves the
\* switch the migrate_func was typed on as the active connection
C36_EndsAtSource ==
  (run.kind = "migrate_func" /\ run'.kind = "none") => cur_connection' = run.sw

\* C36: when migrate_func ends, whether all its primitives succeeded or one
\* of them failed after `connect <dst>` was executed, the active connection
\* is the switch that was active when migrate_func was typed.
C36_BackToSource == [][C36_EndsAtSource]_vars

\* the migrate_func typed on s1 toward s2 has ended with the warning of its
\* `trigger on 4`, after s2 was staged and changed: the loop is back at its
\* prompt and the active connection is s2
C36_LeftAtDestination ==
  /\ alive
  /\ run.kind = "none"
  /\ ncmd = 6
  /\ outstanding = <<>>
  /\ last = Outcome("trigger on 4", ReconfigWarning, "plan")
  /\ cur_connection = "s2"
  /\ connections["s2"].already_init_p4objects_new
  /\ \E j \in 1..Len(sent) : sent[j] = Request("s2", "insert flex ingress " \o Flx4 \o " null null")

(***************************************************************************)
(* C37: a tagger that fails writes nothing (specification ToolSpec)        *)
(***************************************************************************)
Taggers ==
  {"update_init_forwarding_pipeline_json_file", "update_merged_json_file",
   "generate_migrate_json_file"}

\* a tagger was called and raised
TaggerFailed == tOp \in Taggers /\ tDone /\ tOut.err # NoErr

\* C37: a tagger that fails - on action_calls, or tag-migrate on a table or
\* conditional without flex_name - leaves the files as they were: the input
\* file of tag-initial and tag-merged has the content it had before the call
\* and tag-migrate has created no migrate file.  A tagger fails for no other
\* reason, and one that does not fail writes its file.
C37_FailedTaggerWritesNothing ==
  /\ TaggerFailed =>
       /\ DOMAIN tFiles = {ToolPath}
       /\ tFiles[ToolPath] = tPipe
       /\ \/ tPipe.action_calls
          \/ tOp = "generate_migrate_json_file" /\ NoFlex \in Range(FlexNamesOf(tPipe))
  /\ (tOp \in Taggers /\ tDone /\ ~TaggerFailed) =>
       IF tOp = "generate_migrate_json_file"
         THEN /\ DOMAIN tFiles = {ToolPath, MigratePath(ToolPath)}
              /\ tFiles[ToolPath] = tPipe
              /\ tFiles[MigratePath(ToolPath)] = tOut.file
         ELSE /\ DOMAIN tFiles = {ToolPath}
              /\ tFiles[ToolPath] = tOut.file

\* tag-migrate has raised on a file without action_calls in which a table
\* has no flex_name: the file is as it was and there is no migrate file
C37_NoMigrateFile ==
  /\ TaggerFailed
  /\ tOp = "generate_migrate_json_file"
  /\ ~tPipe.action_calls
  /\ tPipe = Untagged(PlainAB)
  /\ tFiles[ToolPath] = Untagged(PlainAB)
  /\ MigratePath(ToolPath) \notin DOMAIN tFiles

====
